---- MODULE Spec2Model ----
(***************************************************************************)
(* The two-tier cache of storybook-mcp-server (class CacheManager,         *)
(* src/storybook-mcp-server/src/testGenerator.ts, lines 335-753).          *)
(*                                                                         *)
(* Every asynchronous method is cut at its awaits: one action is the       *)
(* resolution of one await together with the synchronous code that runs    *)
(* up to the next await (or to the return).  A call in flight lives in a   *)
(* slot of `calls`; a finished call keeps its result there (pc = "done")   *)
(* until the slot is used again.                                           *)
(***************************************************************************)
EXTENDS Integers, Sequences, FiniteSets, TLC

(***************************************************************************)
(* Bounds of the model.                                                    *)
(***************************************************************************)
MaxFaultCost == 6       \* length of a behaviour with faults of the file system: a
                        \* get(), a unit of time, a fault and a cleanup() cost 1 each
MaxConcCost == 3        \* length of a behaviour with calls that overlap: a get() and
                        \* a unit of time cost 1 each
MaxShutCost == 3        \* length of a behaviour with get(), clear() and close() calls
                        \* that overlap: each call costs 1
MaxLifeCost == 5        \* length of a behaviour with restarts: a get(), a unit of time
                        \* and a restart cost 1 each
MaxFrameCost == 4       \* length of a behaviour over a directory an earlier run has
                        \* used: every call and a unit of time cost 1 each
MaxSingletonCost == 4   \* length of a behaviour with getCache and resetCache: every
                        \* call and a unit of time cost 1 each
MaxCost == 5            \* length of a behaviour: a get(), a unit of time and an edit
                        \* of a source file cost 1 each, an administrative call 2
Ttl == 2                \* options.ttl of the instance under check
MaxMemoryEntries == 2   \* options.maxMemoryEntries of the instance

(***************************************************************************)
(* Defaults of the constructor (lines 377-378).                            *)
(***************************************************************************)
DefaultTtl == 300000
DefaultMaxMemoryEntries == 1000

(***************************************************************************)
(* Inputs.                                                                 *)
(***************************************************************************)
LogicalKeys == {"component:Button.tsx", "story:Button.stories.tsx", "component:Card.tsx"}
ComputeFns == {"resolves", "rejects"}   \* what the computeFn passed to get() does
NoPath == ""                            \* get() called without filePath
SourceFiles == {"Button.tsx"}
\* The filePath a caller passes with a key (index.ts, lines 2285-2291 and 2390-2396:
\* the same file every time a key is asked for); the third key is asked for
\* without a filePath
SourceOf(key) == IF key = "component:Card.tsx" THEN NoPath ELSE "Button.tsx"
Procs == {1, 2}                         \* slots for calls in flight
SeqProcs == {1}                         \* one call at a time

VARIABLES
  now,               \* Date.now()
  enableDiskCache,   \* this.enableDiskCache
  enableFileWatching,\* this.enableFileWatching
  ttl,               \* this.ttl
  maxMemoryEntries,  \* this.maxMemoryEntries
  globalCache,       \* the module's globalCache: which instance it refers to
                     \* (ref = 0: null) and how many getCache has constructed
  memoryCache,       \* this.memoryCache: a Map, kept in insertion order
  disk,              \* the files <key>.cache of diskCachePath: name -> content
  dirExists,         \* diskCachePath exists
  mkdirPending,      \* the constructor's un-awaited ensureDiskCacheDir()
  fileWatchers,      \* this.fileWatchers: filePath -> handle id
  handles,           \* every fs.watch handle ever opened
  events,            \* handles with a "change" notification not yet delivered
  stats,             \* this.stats
  files,             \* revision of each source file (its content is FileContents)
  calls,             \* the calls in flight and the results of the finished ones
  track,             \* history per logical key (not program state)
  nAdmin,            \* administrative calls started (bounds the behaviours)
  missing,           \* source files that have been deleted
  nFaults,           \* faults of the file system so far (bounds the behaviours)
  completed          \* get() calls that have returned or thrown (not program state)

vars == <<now, enableDiskCache, enableFileWatching, ttl, maxMemoryEntries, globalCache, memoryCache, disk, dirExists,
          mkdirPending, fileWatchers, handles, events, stats, files, calls, track,
          nAdmin, missing, nFaults, completed>>

(***************************************************************************)
(* crypto.createHash("sha256").update(input).digest("hex"): the digests of *)
(* the logical keys, and the digests of those digests (the code hashes a   *)
(* key that is already a digest in two places).                            *)
(***************************************************************************)
Sha256Hex(input) ==
  CASE input = "component:Button.tsx"
         -> "2d6326de0b27cf8b9d267dd09d43de39ba8d96c2defcc18874aca5710407c39b"
    [] input = "story:Button.stories.tsx"
         -> "86b226742364d92ad764b6e51b5b85987d3f6df4c5fb0600c5a295cf38637d70"
    [] input = "component:Card.tsx"
         -> "c810a6ce0396f6f30b851e2a1516d0434297ecbc39a68edd6347d5966524de50"
    [] input = "2d6326de0b27cf8b9d267dd09d43de39ba8d96c2defcc18874aca5710407c39b"
         -> "3cc7647405507b6f61b7aad87cfdef8e94ca6d2dad3a59690834098614b776cf"
    [] input = "86b226742364d92ad764b6e51b5b85987d3f6df4c5fb0600c5a295cf38637d70"
         -> "39de105257314bc6e71b9353f5ded76bd27cb774524d961485c75b7637fa29e8"
    [] input = "c810a6ce0396f6f30b851e2a1516d0434297ecbc39a68edd6347d5966524de50"
         -> "3315f769ee3642a7a8491891187c0f32f5bcec395cede147a7245405820c1935"

\* A key derived from the file name alone: the keys of one file share it
generateKey_OfFile(input) ==
  Sha256Hex(IF input = "story:Button.stories.tsx" THEN "component:Button.tsx" ELSE input)

generateKey(input) == Sha256Hex(input)

(***************************************************************************)
(* crypto.createHash("md5").update(content).digest("hex") of the contents  *)
(* a source file takes in the model.                                       *)
(***************************************************************************)
FileContents == <<"v0", "v1", "v2", "v3", "v4", "v5", "v6", "v7">>

Md5Hex(content) ==
  CASE content = "v0" -> "9abcde3c584628a02620bf796dee1204"
    [] content = "v1" -> "6654c734ccab8f440ff0825eb443dc7f"
    [] content = "v2" -> "1b267619c4812cc46ee281747884ca50"
    [] content = "v3" -> "43a03299a3c3fed3d8ce7b820f3aca81"
    [] content = "v4" -> "5ed3a3ff8e5c29979502b9030e8518e0"
    [] content = "v5" -> "4b6df01946f4919a3f5af8c1f0f9c3c5"
    [] content = "v6" -> "0af45c99beb7a9afc9192665c4a05cd3"
    [] content = "v7" -> "e6dd71377633723164aeea0750ddafa8"

(***************************************************************************)
(* The value a computeFn resolves with: every get() is handed a computeFn  *)
(* of its own, so the value tells the key and which invocation (the n-th   *)
(* miss of the instance) produced it.                                      *)
(***************************************************************************)
NoData == <<>>
Result(key, n) == <<key, n>>

(***************************************************************************)
(* CacheEntry<T> and the Map that holds the memory tier.  A JavaScript Map *)
(* iterates in insertion order; set() of a present key keeps its place.    *)
(***************************************************************************)
\* The entry stamped in seconds where isValid compares milliseconds
NewEntry_Seconds(data, timestamp, hash) ==
  [data |-> data, timestamp |-> timestamp \div 1000, hash |-> hash, hits |-> 0]

NewEntry(data, timestamp, hash) ==
  [data |-> data, timestamp |-> timestamp, hash |-> hash, hits |-> 0]

NoEntry == [data |-> NoData, timestamp |-> -1, hash |-> "", hits |-> -1]

MapKeys(m) == {m[i].key : i \in 1..Len(m)}

MapHas(m, key) == key \in MapKeys(m)

MapIndex(m, key) == CHOOSE i \in 1..Len(m) : m[i].key = key

MapGet(m, key) == m[MapIndex(m, key)].entry

\* A set that adds a pair whether or not the key is there
MapSet_Appends(m, key, entry) == Append(m, [key |-> key, entry |-> entry])

MapSet(m, key, entry) ==
  IF MapHas(m, key)
  THEN [m EXCEPT ![MapIndex(m, key)] = [key |-> key, entry |-> entry]]
  ELSE Append(m, [key |-> key, entry |-> entry])

\* A delete that drops the oldest entry when the key is not there
MapDelete_OrOldest(m, key) ==
  IF MapHas(m, key)
  THEN LET i == MapIndex(m, key) IN SubSeq(m, 1, i - 1) \o SubSeq(m, i + 1, Len(m))
  ELSE IF m # <<>> THEN Tail(m) ELSE m

MapDelete(m, key) ==
  IF MapHas(m, key)
  THEN LET i == MapIndex(m, key) IN SubSeq(m, 1, i - 1) \o SubSeq(m, i + 1, Len(m))
  ELSE m

\* isValid with the bound included: an entry of age ttl still counts as valid
isValid_Inclusive(entry) == now - entry.timestamp <= ttl

\* isValid: age < ttl, at the time of the call
isValid(entry) == now - entry.timestamp < ttl

\* The loop of evictLRU: `best` is the index of lruKey, 0 while lruKey is null
\* (lruHits and oldestTime are Infinity).
RECURSIVE lruScan(_, _, _)
lruScan(m, i, best) ==
  IF i > Len(m) THEN best
  ELSE IF \/ best = 0
          \/ m[i].entry.hits < m[best].entry.hits
          \/ /\ m[i].entry.hits = m[best].entry.hits
             /\ m[i].entry.timestamp < m[best].entry.timestamp
       THEN lruScan(m, i + 1, i)
       ELSE lruScan(m, i + 1, best)

lruKey(m) == lruScan(m, 1, 0)

\* Eviction of the entry inserted first, whatever its hits
evictLRU_Fifo(m) == IF m # <<>> THEN Tail(m) ELSE m

evictLRU(m) ==
  IF lruKey(m) # 0 THEN MapDelete(m, m[lruKey(m)].key) ELSE m

\* The memory part of set(): evict when size >= maxMemoryEntries, then Map.set
setMemory(m, key, entry) ==
  IF Len(m) >= maxMemoryEntries
  THEN MapSet(evictLRU(m), key, entry)
  ELSE MapSet(m, key, entry)

(***************************************************************************)
(* The disk tier: the content of <diskCachePath>/<key>.cache.              *)
(* JSON.stringify(entry) is a text that JSON.parse turns back into the     *)
(* entry; any other content makes JSON.parse throw.                        *)
(***************************************************************************)
JSONStringify(entry) == [kind |-> "json", entry |-> entry]

Garbage == [kind |-> "garbage", entry |-> NoEntry]

JSONParses(content) == content.kind = "json"

JSONParse(content) == content.entry

DiskRemove(d, key) == [k \in (DOMAIN d) \ {key} |-> d[k]]

DiskPut(d, key, content) == [k \in (DOMAIN d) \cup {key} |-> IF k = key THEN content ELSE d[k]]

\* getDiskCache reading <key> where setDiskCache wrote <key>.cache: no such file
getDiskCache_NoExtension(key) == NoEntry

\* getDiskCache that takes whatever the file holds for an entry stored just now
getDiskCache_Unchecked(key) ==
  IF dirExists /\ key \in DOMAIN disk
  THEN IF JSONParses(disk[key]) THEN JSONParse(disk[key]) ELSE NewEntry(NoData, now, "")
  ELSE NoEntry

\* getDiskCache: the entry, or null (NoEntry) when readFile or JSON.parse throws
getDiskCache(key) ==
  IF dirExists /\ key \in DOMAIN disk /\ JSONParses(disk[key])
  THEN JSONParse(disk[key])
  ELSE NoEntry

(***************************************************************************)
(* new RegExp(pattern).test(key) for a pattern without metacharacters:     *)
(* the pattern occurs in the key.  TLC cannot index a string, so Chars     *)
(* spells out the strings that are tested.                                 *)
(***************************************************************************)
Patterns == {"Button", "de"}

Chars(s) ==
  CASE s = "component:Button.tsx"
         -> <<"c", "o", "m", "p", "o", "n", "e", "n", "t", ":", "B", "u", "t", "t", "o", "n",
            ".", "t", "s", "x">>
    [] s = "story:Button.stories.tsx"
         -> <<"s", "t", "o", "r", "y", ":", "B", "u", "t", "t", "o", "n", ".", "s", "t", "o",
            "r", "i", "e", "s", ".", "t", "s", "x">>
    [] s = "component:Card.tsx"
         -> <<"c", "o", "m", "p", "o", "n", "e", "n", "t", ":", "C", "a", "r", "d", ".", "t",
            "s", "x">>
    [] s = "2d6326de0b27cf8b9d267dd09d43de39ba8d96c2defcc18874aca5710407c39b"
         -> <<"2", "d", "6", "3", "2", "6", "d", "e", "0", "b", "2", "7", "c", "f", "8", "b",
            "9", "d", "2", "6", "7", "d", "d", "0", "9", "d", "4", "3", "d", "e", "3", "9",
            "b", "a", "8", "d", "9", "6", "c", "2", "d", "e", "f", "c", "c", "1", "8", "8",
            "7", "4", "a", "c", "a", "5", "7", "1", "0", "4", "0", "7", "c", "3", "9", "b">>
    [] s = "86b226742364d92ad764b6e51b5b85987d3f6df4c5fb0600c5a295cf38637d70"
         -> <<"8", "6", "b", "2", "2", "6", "7", "4", "2", "3", "6", "4", "d", "9", "2", "a",
            "d", "7", "6", "4", "b", "6", "e", "5", "1", "b", "5", "b", "8", "5", "9", "8",
            "7", "d", "3", "f", "6", "d", "f", "4", "c", "5", "f", "b", "0", "6", "0", "0",
            "c", "5", "a", "2", "9", "5", "c", "f", "3", "8", "6", "3", "7", "d", "7", "0">>
    [] s = "c810a6ce0396f6f30b851e2a1516d0434297ecbc39a68edd6347d5966524de50"
         -> <<"c", "8", "1", "0", "a", "6", "c", "e", "0", "3", "9", "6", "f", "6", "f", "3",
            "0", "b", "8", "5", "1", "e", "2", "a", "1", "5", "1", "6", "d", "0", "4", "3",
            "4", "2", "9", "7", "e", "c", "b", "c", "3", "9", "a", "6", "8", "e", "d", "d",
            "6", "3", "4", "7", "d", "5", "9", "6", "6", "5", "2", "4", "d", "e", "5", "0">>
    [] s = "Button"
         -> <<"B", "u", "t", "t", "o", "n">>
    [] s = "de"
         -> <<"d", "e">>
RegExpTest(pattern, key) ==
  LET p == Chars(pattern)
      s == Chars(key)
  IN \E i \in 0..(Len(s) - Len(p)) : \A j \in 1..Len(p) : s[i + j] = p[j]


(***************************************************************************)
(* A call: its arguments, where it stands, its result, and what the        *)
(* caller could have observed when it started (used to state the claims).  *)
(***************************************************************************)
\* No CacheStats yet; hitRate is kept in hundredths (the code rounds to 2 decimals)
NoReport ==
  [memoryEntries |-> -1, diskEntries |-> -1, totalHits |-> -1, totalMisses |-> -1,
   hitRate |-> -1, lastClear |-> -1]

NoPrev ==
  [same |-> FALSE, src |-> "", data |-> NoData, cold |-> FALSE, immediate |-> FALSE,
   op |-> "idle", key |-> "", during |-> {}]

\* getCache() called with no options
NoOptions == [ttl |-> 0, maxMemoryEntries |-> 0]

BlankCall ==
  [op |-> "idle", pc |-> "idle", key |-> "", cacheKey |-> "", fn |-> "", file |-> NoPath,
   src |-> "", data |-> NoData, write |-> Garbage, todo |-> <<>>, count |-> 0,
   doneAt |-> 0, servedAge |-> -1, invoked |-> 0,
   cold |-> FALSE, changed |-> FALSE, expired |-> FALSE,
   fresh |-> FALSE, persisted |-> FALSE, evicted |-> FALSE,
   keysBefore |-> {}, prev |-> NoPrev,
   report |-> NoReport, repeat |-> FALSE, removed |-> {}, garbled |-> FALSE,
   absent |-> FALSE, overlap |-> FALSE, watchFailed |-> FALSE, live |-> FALSE,
   notified |-> FALSE, during |-> {}, instance |-> 0, options |-> NoOptions]

\* What the call before this get(key) in the same slot was and returned
Prev(c, key) ==
  [same |-> c.op = "get" /\ c.key = key, src |-> c.src, data |-> c.data, cold |-> c.cold,
   immediate |-> c.pc = "done" /\ c.doneAt = now, op |-> c.op, key |-> c.key,
   during |-> c.during]

Free(p) == calls[p].pc \in {"idle", "done"}

\* The calls, with what the call of slot p does in this step noted in the get()
\* calls of the other slots that have passed their lookups and have not stored
\* their entry yet
During(p, what) ==
  [q \in Procs |->
     IF q # p /\ calls[q].op = "get" /\ calls[q].pc \in {"compute", "hash"}
     THEN [calls[q] EXCEPT !.during = @ \cup {what}]
     ELSE calls[q]]

Quiescent == \A p \in Procs : Free(p)

\* get() calls that have started
GetsStarted ==
  stats.hits + stats.misses
    + Cardinality({p \in Procs : calls[p].op = "get" /\ calls[p].pc = "diskRead"})

RECURSIVE SumOver(_, _)
SumOver(f, S) ==
  IF S = {} THEN 0 ELSE LET x == CHOOSE y \in S : TRUE IN f[x] + SumOver(f, S \ {x})

\* What the behaviour has cost so far, and whether it can afford n more
Cost == now + GetsStarted + SumOver(files, SourceFiles) + 2 * nAdmin

Affordable(n) == Cost + n <= MaxCost

\* The logical key a cache key was derived from
KeyOf(cacheKey) == CHOOSE k \in LogicalKeys : generateKey(k) = cacheKey

\* The logical key an invalidate(arg) is meant for: arg itself, or the key whose
\* cache key arg is
Meant(arg) == IF arg \in LogicalKeys THEN arg ELSE KeyOf(arg)

\* History of a logical key: when its latest entry was stored (-1: never), whether
\* that entry was written to the disk tier, was evicted from the memory tier, was
\* the target of an invalidation, whether a change of the file it was stored
\* with has been notified to the watcher registered for it since, the highest
\* hits that entry has shown, and whether a change of its file has been notified
\* to any watcher since
NoTrack ==
  [born |-> -1, persisted |-> FALSE, evicted |-> FALSE, destroyed |-> FALSE,
   file |-> NoPath, changed |-> FALSE, hits |-> 0, notified |-> FALSE]

\* Every copy of the entry of cacheKey is past its ttl, and there is one
ExpiredEverywhere(cacheKey) ==
  /\ MapHas(memoryCache, cacheKey) \/ getDiskCache(cacheKey) # NoEntry
  /\ MapHas(memoryCache, cacheKey) => ~isValid(MapGet(memoryCache, cacheKey))
  /\ getDiskCache(cacheKey) # NoEntry => ~isValid(getDiskCache(cacheKey))

\* options.x || d: the default replaces an option that is not given or is 0 (an
\* option that is not given is written 0 here)
OptionOr(value, default) == IF value = 0 THEN default ELSE value

\* The state after new CacheManager(options) (lines 374-392), in a process that
\* starts at time 0 over a diskCachePath that holds the files `left`
InitOver(options, left) ==
  /\ now = 0
  /\ enableDiskCache \in BOOLEAN
  /\ enableFileWatching \in BOOLEAN
  /\ ttl = OptionOr(options.ttl, DefaultTtl)
  /\ maxMemoryEntries = OptionOr(options.maxMemoryEntries, DefaultMaxMemoryEntries)
  /\ globalCache = [ref |-> 1, made |-> 1]
  /\ memoryCache = <<>>
  /\ disk = left
  /\ dirExists = (left # <<>>)
  /\ mkdirPending = enableDiskCache
  /\ fileWatchers = <<>>
  /\ handles = <<>>
  /\ events = {}
  /\ stats = [hits |-> 0, misses |-> 0, lastClear |-> 0]
  /\ files = [f \in SourceFiles |-> 0]
  /\ calls = [p \in Procs |-> BlankCall]
  /\ track = [k \in LogicalKeys |-> NoTrack]
  /\ nAdmin = 0
  /\ missing = {}
  /\ nFaults = 0
  /\ completed = 0

\* The same over a diskCachePath that does not exist yet
InitWith(options) == InitOver(options, <<>>)

\* The instance under check: options.ttl = Ttl, options.maxMemoryEntries =
\* MaxMemoryEntries
Init == InitWith([ttl |-> Ttl, maxMemoryEntries |-> MaxMemoryEntries])

(***************************************************************************)
(* get(key, computeFn, filePath)                                           *)
(***************************************************************************)

\* The history after a hit on an entry of c.key: the highest hits that the entry
\* created last has shown
Counted(c, entry) ==
  [track EXCEPT ![c.key].hits =
     IF entry.timestamp = track[c.key].born /\ entry.hits + 1 > @ THEN entry.hits + 1 ELSE @]

\* A get() that returns or throws in this step is counted
Completes(p) == completed' = completed + (IF calls'[p].pc = "done" THEN 1 ELSE 0)

\* "Cache miss - compute value": stats.misses++ and the call of computeFn
Miss(p, c) ==
  /\ stats' = [stats EXCEPT !.misses = @ + 1]
  /\ calls' = [calls EXCEPT ![p] =
       [c EXCEPT !.pc = "compute", !.invoked = stats.misses + 1,
                 !.fresh = /\ track[c.key].born >= 0
                           /\ ~track[c.key].destroyed
                           /\ now - track[c.key].born < ttl,
                 !.persisted = track[c.key].persisted,
                 !.evicted = track[c.key].evicted]]

\* A hit that leaves a disk entry where it is: no promotion
Hit_NoPromotion(p, c, tier, entry) ==
  /\ track' = Counted(c, entry)
  /\ memoryCache' = IF tier = "memory"
                    THEN MapSet(memoryCache, c.cacheKey, [entry EXCEPT !.hits = @ + 1])
                    ELSE memoryCache
  /\ stats' = [stats EXCEPT !.hits = @ + 1]
  /\ calls' = [calls EXCEPT ![p] =
       [c EXCEPT !.pc = "done", !.src = tier, !.data = entry.data,
                 !.servedAge = now - entry.timestamp, !.doneAt = now]]

\* A hit that counts in stats.hits only when the memory tier served it
Hit_DiskUncounted(p, c, tier, entry) ==
  /\ track' = Counted(c, entry)
  /\ memoryCache' = MapSet(memoryCache, c.cacheKey, [entry EXCEPT !.hits = @ + 1])
  /\ stats' = [stats EXCEPT !.hits = IF tier = "memory" THEN @ + 1 ELSE @]
  /\ calls' = [calls EXCEPT ![p] =
       [c EXCEPT !.pc = "done", !.src = tier, !.data = entry.data,
                 !.servedAge = now - entry.timestamp, !.doneAt = now]]

\* A hit that stamps the entry anew: the expiry slides
Hit_Refreshes(p, c, tier, entry) ==
  /\ track' = Counted(c, entry)
  /\ memoryCache' = MapSet(memoryCache, c.cacheKey,
                           [entry EXCEPT !.hits = @ + 1, !.timestamp = now])
  /\ stats' = [stats EXCEPT !.hits = @ + 1]
  /\ calls' = [calls EXCEPT ![p] =
       [c EXCEPT !.pc = "done", !.src = tier, !.data = entry.data,
                 !.servedAge = now - entry.timestamp, !.doneAt = now]]

\* A hit of either tier: hits++ on the entry, stats.hits++, return entry.data
Hit(p, c, tier, entry) ==
  /\ track' = Counted(c, entry)
  /\ memoryCache' = MapSet(memoryCache, c.cacheKey, [entry EXCEPT !.hits = @ + 1])
  /\ stats' = [stats EXCEPT !.hits = @ + 1]
  /\ calls' = [calls EXCEPT ![p] =
       [c EXCEPT !.pc = "done", !.src = tier, !.data = entry.data,
                 !.servedAge = now - entry.timestamp, !.doneAt = now]]

\* Lines 402-414 and, with the disk cache off, 425-426
GetStart(p, key, fn) ==
  /\ Free(p)
  /\ LET ck == generateKey(key)
         c == [BlankCall EXCEPT !.op = "get", !.key = key, !.cacheKey = ck, !.fn = fn,
                                !.file = SourceOf(key),
                                !.cold = (memoryCache = <<>> /\ DOMAIN disk = {}),
                                !.changed = track[key].changed,
                                !.notified = /\ track[key].notified
                                             /\ \E k \in LogicalKeys \ {key} :
                                                  track[k].notified,
                                !.expired = ExpiredEverywhere(ck),
                                !.garbled = ck \in DOMAIN disk /\ ~JSONParses(disk[ck]),
                                !.absent = ~MapHas(memoryCache, ck) /\ ck \notin DOMAIN disk,
                                !.overlap = \E q \in Procs \ {p} : ~Free(q),
                                !.live = /\ track[key].born >= 0
                                         /\ ~track[key].destroyed
                                         /\ now - track[key].born < ttl,
                                !.prev = Prev(calls[p], key)]
     IN IF MapHas(memoryCache, ck) /\ isValid(MapGet(memoryCache, ck))
        THEN Hit(p, c, "memory", MapGet(memoryCache, ck))
        ELSE IF enableDiskCache
             THEN /\ calls' = [calls EXCEPT ![p] = [c EXCEPT !.pc = "diskRead"]]
                  /\ UNCHANGED <<memoryCache, stats, track>>
             ELSE /\ Miss(p, c)
                  /\ UNCHANGED <<memoryCache, track>>
  /\ UNCHANGED <<now, enableDiskCache, enableFileWatching, ttl, maxMemoryEntries, globalCache, disk, dirExists, mkdirPending,
                 fileWatchers, handles, events, files, nAdmin,
                 missing, nFaults>>
  /\ Completes(p)

\* Lines 414-426: getDiskCache has resolved
GetDiskRead(p) ==
  /\ calls[p].op = "get" /\ calls[p].pc = "diskRead"
  /\ LET c == calls[p]
         diskEntry == getDiskCache(c.cacheKey)
     IN IF diskEntry # NoEntry /\ isValid(diskEntry)
        THEN Hit(p, c, "disk", diskEntry)
        ELSE /\ Miss(p, c)
             /\ UNCHANGED <<memoryCache, track>>
  /\ UNCHANGED <<now, enableDiskCache, enableFileWatching, ttl, maxMemoryEntries, globalCache, disk, dirExists, mkdirPending,
                 fileWatchers, handles, events, files, nAdmin,
                 missing, nFaults>>
  /\ Completes(p)

\* fs.watch(filePath) throws: there is no such file
WatchFails(filePath) == filePath \in missing

\* watchFile(filePath, cacheKey): fs.watch and this.fileWatchers.set; fs.watch
\* throws for a file that does not exist, which is logged and swallowed
watchFile(filePath, cacheKey) ==
  IF WatchFails(filePath)
  THEN UNCHANGED <<handles, fileWatchers>>
  ELSE /\ handles' = Append(handles, [file |-> filePath, cacheKey |-> cacheKey, open |-> TRUE])
       /\ fileWatchers' = [f \in (DOMAIN fileWatchers) \cup {filePath} |->
                             IF f = filePath THEN Len(handles) + 1 ELSE fileWatchers[f]]

\* A store that gives up when a clear() has run since the lookups of the get()
Store_UnlessCleared(p, c, data, hash) ==
  LET entry == NewEntry(data, now, hash)
      after == IF <<"clear", "">> \in c.during THEN memoryCache
               ELSE setMemory(memoryCache, c.cacheKey, entry)
      gone == MapKeys(memoryCache) \ MapKeys(after)
  IN /\ memoryCache' = after
     /\ track' = [k \in LogicalKeys |->
          IF k = c.key
          THEN [born |-> now, persisted |-> FALSE, evicted |-> FALSE, destroyed |-> FALSE,
                file |-> c.file, changed |-> FALSE, hits |-> 0, notified |-> FALSE]
          ELSE IF generateKey(k) \in gone THEN [track[k] EXCEPT !.evicted = TRUE]
          ELSE track[k]]
     /\ calls' = [calls EXCEPT ![p] =
          IF enableDiskCache
          THEN [c EXCEPT !.pc = "diskWrite", !.data = data, !.write = JSONStringify(entry)]
          ELSE [c EXCEPT !.pc = "done", !.src = "computed", !.data = data, !.doneAt = now]]

\* Lines 439-447 and set(): the entry is built with Date.now(), put in the memory
\* tier, and, with the disk cache on, its JSON text is handed to fs.writeFile
Store(p, c, data, hash) ==
  LET entry == NewEntry(data, now, hash)
      after == setMemory(memoryCache, c.cacheKey, entry)
      gone == MapKeys(memoryCache) \ MapKeys(after)
  IN /\ memoryCache' = after
     /\ track' = [k \in LogicalKeys |->
          IF k = c.key
          THEN [born |-> now, persisted |-> FALSE, evicted |-> FALSE, destroyed |-> FALSE,
                file |-> c.file, changed |-> FALSE, hits |-> 0, notified |-> FALSE]
          ELSE IF generateKey(k) \in gone THEN [track[k] EXCEPT !.evicted = TRUE]
          ELSE track[k]]
     /\ calls' = [calls EXCEPT ![p] =
          IF enableDiskCache
          THEN [c EXCEPT !.pc = "diskWrite", !.data = data, !.write = JSONStringify(entry)]
          ELSE [c EXCEPT !.pc = "done", !.src = "computed", !.data = data, !.doneAt = now]]

\* get() storing an entry before it knows that computeFn has resolved
GetCompute_StoresFirst(p) ==
  /\ calls[p].op = "get" /\ calls[p].pc = "compute"
  /\ LET c == calls[p]
     IN IF c.fn = "rejects"
        THEN /\ calls' = [calls EXCEPT ![p] = [c EXCEPT !.pc = "done", !.src = "error",
                                                        !.doneAt = now]]
             /\ memoryCache' = setMemory(memoryCache, c.cacheKey, NewEntry(NoData, now, ""))
             /\ UNCHANGED track
        ELSE IF c.file # NoPath
             THEN /\ calls' = [calls EXCEPT ![p] = [c EXCEPT !.pc = "hash",
                                                             !.data = Result(c.key, c.invoked)]]
                  /\ UNCHANGED <<memoryCache, track>>
             ELSE Store(p, c, Result(c.key, c.invoked), "")
  /\ UNCHANGED <<now, enableDiskCache, enableFileWatching, ttl, maxMemoryEntries, globalCache, disk, dirExists, mkdirPending,
                 fileWatchers, handles, events, stats, files, nAdmin,
                 missing, nFaults>>
  /\ Completes(p)

\* Lines 426-447: computeFn has settled
GetCompute(p) ==
  /\ calls[p].op = "get" /\ calls[p].pc = "compute"
  /\ LET c == calls[p]
     IN IF c.fn = "rejects"
        THEN /\ calls' = [calls EXCEPT ![p] = [c EXCEPT !.pc = "done", !.src = "error",
                                                        !.doneAt = now]]
             /\ UNCHANGED <<memoryCache, track>>
        ELSE IF c.file # NoPath
             THEN /\ calls' = [calls EXCEPT ![p] = [c EXCEPT !.pc = "hash",
                                                             !.data = Result(c.key, c.invoked)]]
                  /\ UNCHANGED <<memoryCache, track>>
             ELSE Store(p, c, Result(c.key, c.invoked), "")
  /\ UNCHANGED <<now, enableDiskCache, enableFileWatching, ttl, maxMemoryEntries, globalCache, disk, dirExists, mkdirPending,
                 fileWatchers, handles, events, stats, files, nAdmin,
                 missing, nFaults>>
  /\ Completes(p)

\* computeFileHash(filePath): md5 of the content read, "" when readFile throws
computeFileHash(filePath) ==
  IF filePath \in missing THEN "" ELSE Md5Hex(FileContents[files[filePath] + 1])

\* get() that sets up a watch without asking whether the file has one
GetHash_AlwaysWatches(p) ==
  /\ calls[p].op = "get" /\ calls[p].pc = "hash"
  /\ LET c == [calls[p] EXCEPT !.watchFailed = enableFileWatching /\ WatchFails(calls[p].file)]
     IN /\ IF enableFileWatching
           THEN watchFile(c.file, c.cacheKey)
           ELSE UNCHANGED <<handles, fileWatchers>>
        /\ Store(p, c, c.data, computeFileHash(c.file))
  /\ UNCHANGED <<now, enableDiskCache, enableFileWatching, ttl, maxMemoryEntries, globalCache, disk, dirExists, mkdirPending,
                 events, stats, files, nAdmin,
                 missing, nFaults>>
  /\ Completes(p)

\* get() that lets the error of fs.watch out: the call fails and stores nothing
GetHash_WatchThrows(p) ==
  /\ calls[p].op = "get" /\ calls[p].pc = "hash"
  /\ LET c == [calls[p] EXCEPT !.watchFailed =
                  /\ enableFileWatching /\ calls[p].file \notin DOMAIN fileWatchers
                  /\ WatchFails(calls[p].file)]
     IN IF c.watchFailed
        THEN /\ calls' = [calls EXCEPT ![p] = [c EXCEPT !.pc = "done", !.src = "error",
                                                        !.doneAt = now]]
             /\ UNCHANGED <<handles, fileWatchers, memoryCache, track>>
        ELSE /\ IF enableFileWatching /\ c.file \notin DOMAIN fileWatchers
                THEN watchFile(c.file, c.cacheKey)
                ELSE UNCHANGED <<handles, fileWatchers>>
             /\ Store(p, c, c.data, computeFileHash(c.file))
  /\ UNCHANGED <<now, enableDiskCache, enableFileWatching, ttl, maxMemoryEntries, globalCache, disk,
                 dirExists, mkdirPending, events, stats, files, nAdmin, missing, nFaults>>
  /\ Completes(p)

\* get() that drops its entry when the key was invalidated while it computed
GetHash_DropsInvalidated(p) ==
  /\ calls[p].op = "get" /\ calls[p].pc = "hash"
  /\ LET c == calls[p]
     IN IF <<"invalidate", c.key>> \in c.during
        THEN /\ calls' = [calls EXCEPT ![p] = [c EXCEPT !.pc = "done", !.src = "computed",
                                                        !.doneAt = now]]
             /\ UNCHANGED <<handles, fileWatchers, memoryCache, track>>
        ELSE /\ IF enableFileWatching /\ c.file \notin DOMAIN fileWatchers
                THEN watchFile(c.file, c.cacheKey)
                ELSE UNCHANGED <<handles, fileWatchers>>
             /\ Store(p, c, c.data, computeFileHash(c.file))
  /\ UNCHANGED <<now, enableDiskCache, enableFileWatching, ttl, maxMemoryEntries, globalCache, disk,
                 dirExists, mkdirPending, events, stats, files, nAdmin, missing, nFaults>>
  /\ Completes(p)

\* Lines 431-447: computeFileHash has resolved
GetHash(p) ==
  /\ calls[p].op = "get" /\ calls[p].pc = "hash"
  /\ LET c == [calls[p] EXCEPT !.watchFailed =
                  /\ enableFileWatching /\ calls[p].file \notin DOMAIN fileWatchers
                  /\ WatchFails(calls[p].file)]
     IN /\ IF enableFileWatching /\ c.file \notin DOMAIN fileWatchers
           THEN watchFile(c.file, c.cacheKey)
           ELSE UNCHANGED <<handles, fileWatchers>>
        /\ Store(p, c, c.data, computeFileHash(c.file))
  /\ UNCHANGED <<now, enableDiskCache, enableFileWatching, ttl, maxMemoryEntries, globalCache, disk, dirExists, mkdirPending,
                 events, stats, files, nAdmin,
                 missing, nFaults>>
  /\ Completes(p)

\* setDiskCache: fs.writeFile has settled; a failure is logged and swallowed
GetDiskWrite(p) ==
  /\ calls[p].op = "get" /\ calls[p].pc = "diskWrite"
  /\ LET c == calls[p]
     IN /\ IF dirExists
           THEN /\ disk' = DiskPut(disk, c.cacheKey, c.write)
                /\ track' = [track EXCEPT ![c.key].persisted =
                               @ \/ track[c.key].born = JSONParse(c.write).timestamp]
           ELSE UNCHANGED <<disk, track>>
        /\ calls' = [calls EXCEPT ![p] = [c EXCEPT !.pc = "done", !.src = "computed",
                                                   !.doneAt = now]]
  /\ UNCHANGED <<now, enableDiskCache, enableFileWatching, ttl, maxMemoryEntries, globalCache, memoryCache, dirExists,
                 mkdirPending, fileWatchers, handles, events, stats, files, nAdmin,
                 missing, nFaults>>
  /\ Completes(p)

(***************************************************************************)
(* invalidate(key), the watcher's callback, invalidatePattern(pattern)     *)
(***************************************************************************)

\* The history after an invalidation meant for the logical keys in `meant`
Destroyed(meant) ==
  [k \in LogicalKeys |-> IF k \in meant THEN [track[k] EXCEPT !.destroyed = TRUE] ELSE track[k]]

\* An invalidate(key) that calls fs.unlink whether or not the disk cache is on
InvalidateStart_AlwaysUnlinks(p, key) ==
  /\ Free(p)
  /\ nAdmin' = nAdmin + 1
  /\ memoryCache' = MapDelete(memoryCache, generateKey(key))
  /\ track' = Destroyed({Meant(key)})
  /\ calls' = [calls EXCEPT ![p] =
       [BlankCall EXCEPT !.op = "invalidate", !.key = key, !.cacheKey = generateKey(key),
                         !.pc = "unlink", !.doneAt = now]]
  /\ UNCHANGED <<now, enableDiskCache, enableFileWatching, ttl, maxMemoryEntries, globalCache, disk,
                 dirExists, mkdirPending, fileWatchers, handles, events, stats, files,
                 missing, nFaults, completed>>

\* Lines 533-537 of invalidate(key): the memory tier, then fs.unlink is called
InvalidateStart(p, key) ==
  /\ Free(p)
  /\ nAdmin' = nAdmin + 1
  /\ memoryCache' = MapDelete(memoryCache, generateKey(key))
  /\ track' = Destroyed({Meant(key)})
  /\ calls' = [(IF enableDiskCache THEN calls ELSE During(p, <<"invalidate", key>>))
                 EXCEPT ![p] =
       [BlankCall EXCEPT !.op = "invalidate", !.key = key, !.cacheKey = generateKey(key),
                         !.pc = IF enableDiskCache THEN "unlink" ELSE "done",
                         !.repeat = /\ calls[p].op = "invalidate" /\ calls[p].pc = "done"
                                    /\ calls[p].key = key,
                         !.doneAt = now]]
  /\ UNCHANGED <<now, enableDiskCache, enableFileWatching, ttl, maxMemoryEntries, globalCache, disk, dirExists, mkdirPending,
                 fileWatchers, handles, events, stats, files,
                 missing, nFaults, completed>>

\* The history after the callback of a watcher has finished: the key the watcher
\* was registered for has seen a change of its file
Notified(cacheKey, file) ==
  [k \in LogicalKeys |->
     IF track[k].born >= 0 /\ track[k].file = file
     THEN IF k = Meant(cacheKey)
          THEN [track[k] EXCEPT !.changed = TRUE, !.destroyed = TRUE, !.notified = TRUE]
          ELSE [track[k] EXCEPT !.notified = TRUE]
     ELSE track[k]]

\* Lines 515-521: a watcher's callback runs for a "change" and calls
\* this.invalidate(cacheKey) with the cache key the watcher was registered with
WatchChange(p, h) ==
  /\ Free(p)
  /\ h \in events
  /\ events' = events \ {h}
  /\ LET arg == handles[h].cacheKey
     IN /\ memoryCache' = MapDelete(memoryCache, generateKey(arg))
        /\ calls' = [calls EXCEPT ![p] =
             [BlankCall EXCEPT !.op = "watch", !.key = arg, !.cacheKey = generateKey(arg),
                               !.file = handles[h].file,
                               !.pc = IF enableDiskCache THEN "unlink" ELSE "done",
                               !.doneAt = now]]
        /\ track' = IF enableDiskCache THEN track ELSE Notified(arg, handles[h].file)
  /\ UNCHANGED <<now, enableDiskCache, enableFileWatching, ttl, maxMemoryEntries, globalCache, disk, dirExists, mkdirPending,
                 fileWatchers, handles, stats, files, nAdmin,
                 missing, nFaults, completed>>

\* An unlink that leaves the entry file where it is
InvalidateUnlink_Keeps(p) ==
  /\ calls[p].op \in {"invalidate", "watch"} /\ calls[p].pc = "unlink"
  /\ calls' = [calls EXCEPT ![p] = [@ EXCEPT !.pc = "done", !.doneAt = now]]
  /\ track' = IF calls[p].op = "watch" THEN Notified(calls[p].key, calls[p].file) ELSE track
  /\ UNCHANGED <<now, enableDiskCache, enableFileWatching, ttl, maxMemoryEntries, globalCache, memoryCache, disk, dirExists,
                 mkdirPending, fileWatchers, handles, events, stats, files, nAdmin,
                 missing, nFaults, completed>>

\* Lines 538-543: fs.unlink has settled (a missing file is not an error)
InvalidateUnlink(p) ==
  /\ calls[p].op \in {"invalidate", "watch"} /\ calls[p].pc = "unlink"
  /\ disk' = DiskRemove(disk, calls[p].cacheKey)
  /\ calls' = [During(p, <<calls[p].op, calls[p].key>>) EXCEPT ![p] =
                 [@ EXCEPT !.pc = "done", !.doneAt = now]]
  /\ track' = IF calls[p].op = "watch" THEN Notified(calls[p].key, calls[p].file) ELSE track
  /\ UNCHANGED <<now, enableDiskCache, enableFileWatching, ttl, maxMemoryEntries, globalCache, memoryCache, dirExists,
                 mkdirPending, fileWatchers, handles, events, stats, files, nAdmin,
                 missing, nFaults, completed>>

\* Lines 554-559: the keys of the memory tier that the pattern matches, in order
RECURSIVE keysToDelete(_, _)
keysToDelete(m, pattern) ==
  IF m = <<>> THEN <<>>
  ELSE IF RegExpTest(pattern, Head(m).key)
       THEN <<Head(m).key>> \o keysToDelete(Tail(m), pattern)
       ELSE keysToDelete(Tail(m), pattern)

\* The memory tier after invalidate(key) of every key of a sequence
RECURSIVE invalidateAll(_, _)
invalidateAll(m, keys) ==
  IF keys = <<>> THEN m
  ELSE invalidateAll(MapDelete(m, generateKey(Head(keys))), Tail(keys))

\* Lines 549-562: the keys are collected and invalidate() is called for the
\* first; with the disk cache off no invalidate() waits, and the loop runs through
InvalidatePatternStart(p, pattern) ==
  /\ Free(p)
  /\ nAdmin' = nAdmin + 1
  /\ LET keys == keysToDelete(memoryCache, pattern)
         c == [BlankCall EXCEPT !.op = "invalidatePattern", !.key = pattern,
                                !.keysBefore = MapKeys(memoryCache), !.doneAt = now]
     IN /\ track' = Destroyed({k \in LogicalKeys : RegExpTest(pattern, k)}
                                \cup {Meant(keys[i]) : i \in 1..Len(keys)})
        /\ IF keys = <<>>
           THEN /\ calls' = [calls EXCEPT ![p] = [c EXCEPT !.pc = "done"]]
                /\ UNCHANGED memoryCache
           ELSE IF enableDiskCache
                THEN /\ memoryCache' = MapDelete(memoryCache, generateKey(Head(keys)))
                     /\ calls' = [calls EXCEPT ![p] = [c EXCEPT !.pc = "unlink", !.todo = keys]]
                ELSE /\ memoryCache' = invalidateAll(memoryCache, keys)
                     /\ calls' = [calls EXCEPT ![p] =
                          [c EXCEPT !.pc = "done", !.count = Len(keys)]]
  /\ UNCHANGED <<now, enableDiskCache, enableFileWatching, ttl, maxMemoryEntries, globalCache, disk, dirExists, mkdirPending,
                 fileWatchers, handles, events, stats, files,
                 missing, nFaults, completed>>

\* Lines 561-566: the invalidate() of the loop has resolved: count++, and the
\* next key, or the return of count
InvalidatePatternUnlink(p) ==
  /\ calls[p].op = "invalidatePattern" /\ calls[p].pc = "unlink"
  /\ LET c == calls[p]
         rest == Tail(c.todo)
     IN /\ disk' = DiskRemove(disk, generateKey(Head(c.todo)))
        /\ IF rest = <<>>
           THEN /\ calls' = [calls EXCEPT ![p] =
                     [c EXCEPT !.pc = "done", !.count = @ + 1, !.todo = rest, !.doneAt = now]]
                /\ UNCHANGED memoryCache
           ELSE /\ memoryCache' = MapDelete(memoryCache, generateKey(Head(rest)))
                /\ calls' = [calls EXCEPT ![p] = [c EXCEPT !.count = @ + 1, !.todo = rest]]
  /\ UNCHANGED <<now, enableDiskCache, enableFileWatching, ttl, maxMemoryEntries, globalCache, dirExists, mkdirPending,
                 fileWatchers, handles, events, stats, files, track, nAdmin,
                 missing, nFaults, completed>>

(***************************************************************************)
(* clear()                                                                 *)
(***************************************************************************)

\* The orders in which fs.readdir may list the files of the disk tier
Orders(S) ==
  {s \in [1..Cardinality(S) -> S] : \A i, j \in 1..Cardinality(S) : s[i] = s[j] => i = j}

\* The watchers that fileWatchers holds
Registered == {fileWatchers[f] : f \in DOMAIN fileWatchers}

\* The loop "for (const watcher of this.fileWatchers.values()) watcher.close()" of
\* clear() and of close()
WatchersClosed ==
  [h \in 1..Len(handles) |->
     IF h \in Registered THEN [handles[h] EXCEPT !.open = FALSE] ELSE handles[h]]

\* The end of clear() with the counters reset as well
ClearFinish_ResetsCounters(p, c) ==
  /\ handles' = WatchersClosed
  /\ fileWatchers' = <<>>
  /\ events' = events \ Registered
  /\ stats' = [hits |-> 0, misses |-> 0, lastClear |-> now]
  /\ calls' = [During(p, <<"clear", "">>) EXCEPT ![p] =
                 [c EXCEPT !.pc = "done", !.doneAt = now]]

\* Lines 586-596: every watcher is closed, fileWatchers is emptied, lastClear is
\* set; a closed watcher delivers nothing more
ClearFinish(p, c) ==
  /\ handles' = WatchersClosed
  /\ fileWatchers' = <<>>
  /\ events' = events \ Registered
  /\ stats' = [stats EXCEPT !.lastClear = now]
  /\ calls' = [During(p, <<"clear", "">>) EXCEPT ![p] =
                 [c EXCEPT !.pc = "done", !.doneAt = now]]

\* Lines 573-578: the memory tier is emptied; with the disk cache on, fs.readdir
\* is called
ClearStart(p) ==
  /\ Free(p)
  /\ nAdmin' = nAdmin + 1
  /\ memoryCache' = <<>>
  /\ track' = Destroyed(LogicalKeys)
  /\ LET c == [BlankCall EXCEPT !.op = "clear"]
     IN IF enableDiskCache
        THEN /\ calls' = [During(p, <<"clear", "">>) EXCEPT ![p] =
                            [c EXCEPT !.pc = "readdir"]]
             /\ UNCHANGED <<handles, fileWatchers, events, stats>>
        ELSE ClearFinish(p, c)
  /\ UNCHANGED <<now, enableDiskCache, enableFileWatching, ttl, maxMemoryEntries, globalCache, disk, dirExists, mkdirPending,
                 files,
                 missing, nFaults, completed>>

\* A readdir step of clear() that goes on without unlinking anything
ClearReaddir_NoUnlink(p) ==
  /\ calls[p].op = "clear" /\ calls[p].pc = "readdir"
  /\ ClearFinish(p, calls[p])
  /\ UNCHANGED <<now, enableDiskCache, enableFileWatching, ttl, maxMemoryEntries, globalCache, memoryCache, disk, dirExists,
                 mkdirPending, files, track, nAdmin, missing, nFaults, completed>>

\* Lines 578-585: fs.readdir has settled: it throws when the directory does not
\* exist, else the loop starts to unlink the .cache files it listed
ClearReaddir(p) ==
  /\ calls[p].op = "clear" /\ calls[p].pc = "readdir"
  /\ IF dirExists /\ DOMAIN disk # {}
     THEN /\ \E order \in Orders(DOMAIN disk) :
               calls' = [calls EXCEPT ![p] = [@ EXCEPT !.pc = "unlink", !.todo = order]]
          /\ UNCHANGED <<handles, fileWatchers, events, stats>>
     ELSE ClearFinish(p, calls[p])
  /\ UNCHANGED <<now, enableDiskCache, enableFileWatching, ttl, maxMemoryEntries, globalCache, memoryCache, disk, dirExists,
                 mkdirPending, files, track, nAdmin,
                 missing, nFaults, completed>>

\* Lines 581-596: an fs.unlink of the loop has settled; unlink of a file that is
\* gone throws, which ends the loop
ClearUnlink(p) ==
  /\ calls[p].op = "clear" /\ calls[p].pc = "unlink"
  /\ LET c == calls[p]
         rest == Tail(c.todo)
     IN /\ disk' = DiskRemove(disk, Head(c.todo))
        /\ IF rest = <<>> \/ Head(c.todo) \notin DOMAIN disk
           THEN ClearFinish(p, [c EXCEPT !.todo = <<>>])
           ELSE /\ calls' = [calls EXCEPT ![p] = [c EXCEPT !.todo = rest]]
                /\ UNCHANGED <<handles, fileWatchers, events, stats>>
  /\ UNCHANGED <<now, enableDiskCache, enableFileWatching, ttl, maxMemoryEntries, globalCache, memoryCache, dirExists,
                 mkdirPending, files, track, nAdmin,
                 missing, nFaults, completed>>

(***************************************************************************)
(* close()                                                                 *)
(***************************************************************************)

\* A close() that empties fileWatchers and leaves the watchers open
Close_RegistryOnly(p) ==
  /\ Free(p)
  /\ nAdmin' = nAdmin + 1
  /\ fileWatchers' = <<>>
  /\ calls' = [calls EXCEPT ![p] = [BlankCall EXCEPT !.op = "close", !.pc = "done",
                                                     !.doneAt = now]]
  /\ UNCHANGED <<now, enableDiskCache, enableFileWatching, ttl, maxMemoryEntries, globalCache,
                 memoryCache, disk, dirExists, mkdirPending, handles, events, stats,
                 files, track, missing, nFaults, completed>>

\* Lines 730-735: every watcher of fileWatchers is closed and fileWatchers is
\* emptied, in one step (there is no await in it); the two tiers stay as they are
Close(p) ==
  /\ Free(p)
  /\ nAdmin' = nAdmin + 1
  /\ handles' = WatchersClosed
  /\ events' = events \ Registered
  /\ fileWatchers' = <<>>
  /\ calls' = [calls EXCEPT ![p] = [BlankCall EXCEPT !.op = "close", !.pc = "done",
                                                     !.doneAt = now]]
  /\ UNCHANGED <<now, enableDiskCache, enableFileWatching, ttl, maxMemoryEntries, globalCache,
                 memoryCache, disk, dirExists, mkdirPending, stats, files, track,
                 missing, nFaults, completed>>

(***************************************************************************)
(* getStats()                                                              *)
(***************************************************************************)

\* Math.floor in the place of Math.round
MathRound_Floor(num, den) == num \div den

\* Math.round(x) for x = num / den >= 0: the nearest integer, halves upwards
MathRound(num, den) == (2 * num + den) \div (2 * den)

\* Lines 613-627: the CacheStats returned.  hitRate is
\* Math.round(hitRate * 10000) / 100, kept here in hundredths; memorySize (the
\* length of a JSON text) is left out
CacheStats(diskEntries) ==
  LET total == stats.hits + stats.misses
  IN [memoryEntries |-> Len(memoryCache),
      diskEntries |-> diskEntries,
      totalHits |-> stats.hits,
      totalMisses |-> stats.misses,
      hitRate |-> IF total > 0 THEN MathRound(stats.hits * 10000, total) ELSE 0,
      lastClear |-> stats.lastClear]

\* Lines 602-604: with the disk cache on, fs.readdir is called
GetStatsStart(p) ==
  /\ Free(p)
  /\ nAdmin' = nAdmin + 1
  /\ LET c == [BlankCall EXCEPT !.op = "getStats"]
     IN calls' = [calls EXCEPT ![p] =
          IF enableDiskCache
          THEN [c EXCEPT !.pc = "readdir"]
          ELSE [c EXCEPT !.pc = "done", !.report = CacheStats(0), !.doneAt = now]]
  /\ UNCHANGED <<now, enableDiskCache, enableFileWatching, ttl, maxMemoryEntries, globalCache, memoryCache, disk, dirExists,
                 mkdirPending, fileWatchers, handles, events, stats, files, track,
                 missing, nFaults, completed>>

\* Lines 605-627: fs.readdir has settled (diskEntries = 0 when it throws)
GetStatsReaddir(p) ==
  /\ calls[p].op = "getStats" /\ calls[p].pc = "readdir"
  /\ calls' = [calls EXCEPT ![p] =
       [@ EXCEPT !.pc = "done", !.doneAt = now,
                 !.report = CacheStats(IF dirExists THEN Cardinality(DOMAIN disk) ELSE 0)]]
  /\ UNCHANGED <<now, enableDiskCache, enableFileWatching, ttl, maxMemoryEntries, globalCache, memoryCache, disk, dirExists,
                 mkdirPending, fileWatchers, handles, events, stats, files, track, nAdmin,
                 missing, nFaults, completed>>

(***************************************************************************)
(* cleanup()                                                               *)
(***************************************************************************)

\* A scan that also drops the entries that were never hit
validEntries_AndHit(m) ==
  SelectSeq(m, LAMBDA e : now - e.entry.timestamp < ttl /\ e.entry.hits > 0)

\* Lines 687-692: the entries of the memory tier that are still valid, in order
RECURSIVE validEntries(_)
validEntries(m) ==
  IF m = <<>> THEN <<>>
  ELSE IF isValid(Head(m).entry)
       THEN <<Head(m)>> \o validEntries(Tail(m))
       ELSE validEntries(Tail(m))

\* Lines 684-697: the loop over the memory tier; with the disk cache on,
\* fs.readdir is called
CleanupStart(p) ==
  /\ Free(p)
  /\ nAdmin' = nAdmin + 1
  /\ memoryCache' = validEntries(memoryCache)
  /\ LET gone == MapKeys(memoryCache) \ MapKeys(validEntries(memoryCache))
         c == [BlankCall EXCEPT !.op = "cleanup", !.count = Cardinality(gone),
                                !.removed = gone, !.doneAt = now]
     IN calls' = [calls EXCEPT ![p] =
          [c EXCEPT !.pc = IF enableDiskCache THEN "readdir" ELSE "done"]]
  /\ UNCHANGED <<now, enableDiskCache, enableFileWatching, ttl, maxMemoryEntries, globalCache, disk, dirExists, mkdirPending,
                 fileWatchers, handles, events, stats, files, track,
                 missing, nFaults, completed>>

\* Lines 697-700: fs.readdir has settled; it throws when the directory does not
\* exist, else fs.readFile is called for the first file it listed
CleanupReaddir(p) ==
  /\ calls[p].op = "cleanup" /\ calls[p].pc = "readdir"
  /\ IF dirExists /\ DOMAIN disk # {}
     THEN \E order \in Orders(DOMAIN disk) :
            calls' = [calls EXCEPT ![p] = [@ EXCEPT !.pc = "readFile", !.todo = order]]
     ELSE calls' = [calls EXCEPT ![p] = [@ EXCEPT !.pc = "done", !.doneAt = now]]
  /\ UNCHANGED <<now, enableDiskCache, enableFileWatching, ttl, maxMemoryEntries, globalCache, memoryCache, disk, dirExists,
                 mkdirPending, fileWatchers, handles, events, stats, files, track, nAdmin,
                 missing, nFaults, completed>>

\* The loop of cleanup goes on with the files that remain, or returns
CleanupNext(p, c, rest) ==
  calls' = [calls EXCEPT ![p] =
    IF rest = <<>>
    THEN [c EXCEPT !.pc = "done", !.todo = rest, !.doneAt = now]
    ELSE [c EXCEPT !.pc = "readFile", !.todo = rest]]

\* Lines 701-707: fs.readFile has settled.  A file that is gone or that
\* JSON.parse rejects throws into the catch around the whole loop, which ends the
\* scan; an entry that is no longer valid is handed to fs.unlink
CleanupReadFile(p) ==
  /\ calls[p].op = "cleanup" /\ calls[p].pc = "readFile"
  /\ LET c == calls[p]
         file == Head(c.todo)
     IN IF file \notin DOMAIN disk \/ ~JSONParses(disk[file])
        THEN CleanupNext(p, c, <<>>)
        ELSE IF ~isValid(JSONParse(disk[file]))
             THEN calls' = [calls EXCEPT ![p] = [c EXCEPT !.pc = "unlink"]]
             ELSE CleanupNext(p, c, Tail(c.todo))
  /\ UNCHANGED <<now, enableDiskCache, enableFileWatching, ttl, maxMemoryEntries, globalCache, memoryCache, disk, dirExists,
                 mkdirPending, fileWatchers, handles, events, stats, files, track, nAdmin,
                 missing, nFaults, completed>>

\* Lines 704-706: fs.unlink has settled: cleaned++ (an unlink that throws ends the
\* scan)
CleanupUnlink(p) ==
  /\ calls[p].op = "cleanup" /\ calls[p].pc = "unlink"
  /\ LET c == calls[p]
         file == Head(c.todo)
     IN IF file \in DOMAIN disk
        THEN /\ disk' = DiskRemove(disk, file)
             /\ CleanupNext(p, [c EXCEPT !.count = @ + 1, !.removed = @ \cup {file}],
                            Tail(c.todo))
        ELSE /\ CleanupNext(p, c, <<>>)
             /\ UNCHANGED disk
  /\ UNCHANGED <<now, enableDiskCache, enableFileWatching, ttl, maxMemoryEntries, globalCache, memoryCache, dirExists,
                 mkdirPending, fileWatchers, handles, events, stats, files, track, nAdmin,
                 missing, nFaults, completed>>

(***************************************************************************)
(* The environment: time, the constructor's mkdir, edits of source files.  *)
(***************************************************************************)

\* The clock advances while nothing waits for the disk: a disk operation takes
\* far less than one unit of the clock, a computeFn may take long
Tick ==
  /\ \A p \in Procs : Free(p) \/ calls[p].pc = "compute"
  /\ now' = now + 1
  /\ UNCHANGED <<enableDiskCache, enableFileWatching, ttl, maxMemoryEntries, globalCache, memoryCache, disk, dirExists,
                 mkdirPending, fileWatchers, handles, events, stats, files, calls, track,
                 nAdmin,
                 missing, nFaults, completed>>

\* ensureDiskCacheDir: fs.mkdir(diskCachePath, {recursive: true}) has resolved
ensureDiskCacheDir ==
  /\ mkdirPending
  /\ mkdirPending' = FALSE
  /\ dirExists' = TRUE
  /\ UNCHANGED <<now, enableDiskCache, enableFileWatching, ttl, maxMemoryEntries, globalCache, memoryCache, disk, fileWatchers,
                 handles, events, stats, files, calls, track, nAdmin,
                 missing, nFaults, completed>>

\* A source file is modified: every open watcher of it is notified of a "change"
Edit(f) ==
  /\ files' = [files EXCEPT ![f] = @ + 1]
  /\ events' = events \cup {h \in 1..Len(handles) : handles[h].open /\ handles[h].file = f}
  /\ UNCHANGED <<now, enableDiskCache, enableFileWatching, ttl, maxMemoryEntries, globalCache, memoryCache, disk, dirExists,
                 mkdirPending, fileWatchers, handles, stats, calls, track, nAdmin,
                 missing, nFaults, completed>>

\* A source file is deleted
Remove(f) ==
  /\ f \notin missing
  /\ missing' = missing \cup {f}
  /\ nFaults' = nFaults + 1
  /\ UNCHANGED <<now, enableDiskCache, enableFileWatching, ttl, maxMemoryEntries, globalCache, memoryCache, disk, dirExists,
                 mkdirPending, fileWatchers, handles, events, stats, files, calls, track,
                 nAdmin, completed>>

\* An entry file of the disk tier is damaged: its content is no JSON text any more
Corrupt(cacheKey) ==
  /\ cacheKey \in DOMAIN disk /\ JSONParses(disk[cacheKey])
  /\ disk' = DiskPut(disk, cacheKey, Garbage)
  /\ nFaults' = nFaults + 1
  /\ UNCHANGED <<now, enableDiskCache, enableFileWatching, ttl, maxMemoryEntries, globalCache, memoryCache, dirExists,
                 mkdirPending, fileWatchers, handles, events, stats, files, calls, track,
                 nAdmin, missing, completed>>

\* The process ends and a new one constructs a CacheManager with the same options
\* over the same diskCachePath (lines 374-392): what the old process held in
\* memory is gone, its watchers with it; the files of the disk tier stay
Restart ==
  /\ nAdmin' = nAdmin + 1
  /\ memoryCache' = <<>>
  /\ fileWatchers' = <<>>
  /\ handles' = [h \in 1..Len(handles) |-> [handles[h] EXCEPT !.open = FALSE]]
  /\ events' = {}
  /\ stats' = [hits |-> 0, misses |-> 0, lastClear |-> now]
  /\ mkdirPending' = enableDiskCache
  /\ calls' = [p \in Procs |-> [BlankCall EXCEPT !.op = "constructor"]]
  /\ track' = [k \in LogicalKeys |->
                 [track[k] EXCEPT !.evicted = @ \/ track[k].born >= 0]]
  /\ UNCHANGED <<now, enableDiskCache, enableFileWatching, ttl, maxMemoryEntries, globalCache, disk,
                 dirExists, files, missing, nFaults, completed>>

(***************************************************************************)
(* getCache(options) and resetCache() (lines 738-753)                      *)
(***************************************************************************)

\* A getCache that configures the instance it has with the options it is given
getCache_Reconfigures(p, options) ==
  /\ Free(p)
  /\ nAdmin' = nAdmin + 1
  /\ ttl' = OptionOr(options.ttl, DefaultTtl)
  /\ maxMemoryEntries' = OptionOr(options.maxMemoryEntries, DefaultMaxMemoryEntries)
  /\ globalCache' = IF globalCache.ref = 0
                    THEN [ref |-> globalCache.made + 1, made |-> globalCache.made + 1]
                    ELSE globalCache
  /\ calls' = [calls EXCEPT ![p] =
       [BlankCall EXCEPT !.op = "getCache", !.pc = "done", !.doneAt = now,
                         !.options = options, !.instance = globalCache'.ref]]
  /\ IF globalCache.ref = 0
     THEN /\ memoryCache' = <<>>
          /\ fileWatchers' = <<>>
          /\ stats' = [hits |-> 0, misses |-> 0, lastClear |-> now]
          /\ mkdirPending' = enableDiskCache
          /\ track' = [k \in LogicalKeys |->
                         [track[k] EXCEPT !.evicted = @ \/ track[k].born >= 0]]
     ELSE UNCHANGED <<memoryCache, fileWatchers, stats, mkdirPending, track>>
  /\ UNCHANGED <<now, enableDiskCache, enableFileWatching, disk, dirExists, handles,
                 events, files, missing, nFaults, completed>>

\* Lines 741-746: when globalCache is null a CacheManager is constructed with the
\* options (lines 374-392: an empty memory tier, no watchers, counters at 0) and
\* kept in globalCache; else the options are not looked at; globalCache is
\* returned
getCache(p, options) ==
  /\ Free(p)
  /\ nAdmin' = nAdmin + 1
  /\ IF globalCache.ref = 0
     THEN /\ globalCache' = [ref |-> globalCache.made + 1, made |-> globalCache.made + 1]
          /\ ttl' = OptionOr(options.ttl, DefaultTtl)
          /\ maxMemoryEntries' = OptionOr(options.maxMemoryEntries, DefaultMaxMemoryEntries)
          /\ memoryCache' = <<>>
          /\ fileWatchers' = <<>>
          /\ stats' = [hits |-> 0, misses |-> 0, lastClear |-> now]
          /\ mkdirPending' = enableDiskCache
          /\ track' = [k \in LogicalKeys |->
                         [track[k] EXCEPT !.evicted = @ \/ track[k].born >= 0]]
     ELSE UNCHANGED <<globalCache, ttl, maxMemoryEntries, memoryCache, fileWatchers,
                      stats, mkdirPending, track>>
  /\ calls' = [calls EXCEPT ![p] =
       [BlankCall EXCEPT !.op = "getCache", !.pc = "done", !.doneAt = now,
                         !.options = options, !.instance = globalCache'.ref]]
  /\ UNCHANGED <<now, enableDiskCache, enableFileWatching, disk, dirExists, handles,
                 events, files, missing, nFaults, completed>>

\* Lines 748-753: the instance in globalCache, if there is one, is closed (every
\* watcher of its fileWatchers) and globalCache is set to null
resetCache(p) ==
  /\ Free(p)
  /\ nAdmin' = nAdmin + 1
  /\ IF globalCache.ref # 0
     THEN /\ handles' = WatchersClosed
          /\ events' = events \ Registered
          /\ fileWatchers' = <<>>
          /\ globalCache' = [globalCache EXCEPT !.ref = 0]
     ELSE UNCHANGED <<handles, events, fileWatchers, globalCache>>
  /\ calls' = [calls EXCEPT ![p] =
       [BlankCall EXCEPT !.op = "resetCache", !.pc = "done", !.doneAt = now]]
  /\ UNCHANGED <<now, enableDiskCache, enableFileWatching, ttl, maxMemoryEntries,
                 memoryCache, disk, dirExists, mkdirPending, stats, files, track,
                 missing, nFaults, completed>>

(***************************************************************************)
(* Spec: the calls run one at a time (a call starts when no other is in    *)
(* flight), within the budget MaxCost.                                     *)
(***************************************************************************)
Next ==
  \/ \E p \in SeqProcs, key \in LogicalKeys, fn \in ComputeFns :
       Quiescent /\ Affordable(1) /\ GetStart(p, key, fn)
  \/ \E p \in SeqProcs : GetDiskRead(p)
  \/ \E p \in SeqProcs : GetCompute(p)
  \/ \E p \in SeqProcs : GetHash(p)
  \/ \E p \in SeqProcs : GetDiskWrite(p)
  \/ \E p \in SeqProcs, key \in LogicalKeys :
       Quiescent /\ Affordable(2) /\ InvalidateStart(p, key)
  \/ \E p \in SeqProcs, h \in events : Quiescent /\ WatchChange(p, h)
  \/ \E p \in SeqProcs : InvalidateUnlink(p)
  \/ \E p \in SeqProcs, pattern \in Patterns :
       Quiescent /\ Affordable(2) /\ InvalidatePatternStart(p, pattern)
  \/ \E p \in SeqProcs : InvalidatePatternUnlink(p)
  \/ \E f \in SourceFiles : Affordable(1) /\ Edit(f)
  \/ \E p \in SeqProcs : Quiescent /\ Affordable(2) /\ ClearStart(p)
  \/ \E p \in SeqProcs : ClearReaddir(p)
  \/ \E p \in SeqProcs : ClearUnlink(p)
  \/ \E p \in SeqProcs : Quiescent /\ Affordable(2) /\ GetStatsStart(p)
  \/ \E p \in SeqProcs : GetStatsReaddir(p)
  \/ \E p \in SeqProcs : Quiescent /\ Affordable(2) /\ CleanupStart(p)
  \/ \E p \in SeqProcs : CleanupReaddir(p)
  \/ \E p \in SeqProcs : CleanupReadFile(p)
  \/ \E p \in SeqProcs : CleanupUnlink(p)
  \/ Affordable(1) /\ Tick
  \/ ensureDiskCacheDir

Spec == Init /\ [][Next]_vars

(***************************************************************************)
(* ConcSpec: get() calls that overlap (a call may start while another is   *)
(* in flight), within the budget MaxConcCost.                              *)
(***************************************************************************)
\* The keys asked for: the two that are cached with the same source file
ConcKeys == {"component:Button.tsx", "story:Button.stories.tsx"}

ConcCost == now + GetsStarted

ConcAffordable(n) == ConcCost + n <= MaxConcCost

ConcNext ==
  \/ \E p \in Procs, key \in ConcKeys, fn \in ComputeFns :
       ConcAffordable(1) /\ GetStart(p, key, fn)
  \/ \E p \in Procs : GetDiskRead(p)
  \/ \E p \in Procs : GetCompute(p)
  \/ \E p \in Procs : GetHash(p)
  \/ \E p \in Procs : GetDiskWrite(p)
  \/ ConcAffordable(1) /\ Tick
  \/ ensureDiskCacheDir

ConcSpec == Init /\ [][ConcNext]_vars

(***************************************************************************)
(* FaultSpec: get() and cleanup() one at a time, while source files are    *)
(* deleted and entry files of the disk tier are damaged, within the budget *)
(* MaxFaultCost.                                                           *)
(***************************************************************************)
\* The keys asked for: one that is cached with a source file, one without
FaultKeys == {"component:Button.tsx", "component:Card.tsx"}

FaultCost == now + GetsStarted + nAdmin + nFaults

FaultAffordable(n) == FaultCost + n <= MaxFaultCost

FaultNext ==
  \/ \E p \in SeqProcs, key \in FaultKeys, fn \in ComputeFns :
       Quiescent /\ FaultAffordable(1) /\ GetStart(p, key, fn)
  \/ \E p \in SeqProcs : GetDiskRead(p)
  \/ \E p \in SeqProcs : GetCompute(p)
  \/ \E p \in SeqProcs : GetHash(p)
  \/ \E p \in SeqProcs : GetDiskWrite(p)
  \/ \E p \in SeqProcs : Quiescent /\ FaultAffordable(1) /\ CleanupStart(p)
  \/ \E p \in SeqProcs : CleanupReaddir(p)
  \/ \E p \in SeqProcs : CleanupReadFile(p)
  \/ \E p \in SeqProcs : CleanupUnlink(p)
  \/ \E f \in SourceFiles : Quiescent /\ FaultAffordable(1) /\ Remove(f)
  \/ \E k \in FaultKeys : Quiescent /\ FaultAffordable(1) /\ Corrupt(generateKey(k))
  \/ FaultAffordable(1) /\ Tick
  \/ ensureDiskCacheDir

FaultSpec == Init /\ [][FaultNext]_vars

(***************************************************************************)
(* ShutSpec: get(), invalidate(), clear() and close() calls that overlap,  *)
(* within the budget MaxShutCost.                                          *)
(***************************************************************************)
ShutCost == now + GetsStarted + nAdmin

ShutAffordable(n) == ShutCost + n <= MaxShutCost

ShutNext ==
  \/ \E p \in Procs, key \in ConcKeys :
       ShutAffordable(1) /\ GetStart(p, key, "resolves")
  \/ \E p \in Procs : GetDiskRead(p)
  \/ \E p \in Procs : GetCompute(p)
  \/ \E p \in Procs : GetHash(p)
  \/ \E p \in Procs : GetDiskWrite(p)
  \/ \E p \in Procs : ShutAffordable(1) /\ ClearStart(p)
  \/ \E p \in Procs : ClearReaddir(p)
  \/ \E p \in Procs : ClearUnlink(p)
  \/ \E p \in Procs : ShutAffordable(1) /\ Close(p)
  \/ \E p \in Procs, key \in ConcKeys : ShutAffordable(1) /\ InvalidateStart(p, key)
  \/ \E p \in Procs : InvalidateUnlink(p)
  \/ ensureDiskCacheDir

ShutSpec == Init /\ [][ShutNext]_vars

(***************************************************************************)
(* LifeSpec: a CacheManager constructed with any of LifeOptions, get()     *)
(* calls one at a time, and restarts of the process over the same          *)
(* diskCachePath, within the budget MaxLifeCost.                           *)
(***************************************************************************)
\* The options of the constructor: those of Init, a negative ttl, none at all
\* (0 stands for an option left out), and a memory tier of one entry
LifeOptions ==
  {[ttl |-> Ttl, maxMemoryEntries |-> MaxMemoryEntries],
   [ttl |-> -1, maxMemoryEntries |-> MaxMemoryEntries],
   [ttl |-> 0, maxMemoryEntries |-> 0],
   [ttl |-> Ttl, maxMemoryEntries |-> 1]}

LifeInit == \E options \in LifeOptions : InitWith(options)

LifeCost ==
  now + nAdmin + completed + Cardinality({p \in Procs : calls[p].op = "get" /\ ~Free(p)})

LifeAffordable(n) == LifeCost + n <= MaxLifeCost

LifeNext ==
  \/ \E p \in SeqProcs, key \in FaultKeys :
       Quiescent /\ LifeAffordable(1) /\ GetStart(p, key, "resolves")
  \/ \E p \in SeqProcs : GetDiskRead(p)
  \/ \E p \in SeqProcs : GetCompute(p)
  \/ \E p \in SeqProcs : GetHash(p)
  \/ \E p \in SeqProcs : GetDiskWrite(p)
  \/ Quiescent /\ LifeAffordable(1) /\ Restart
  \/ LifeAffordable(1) /\ Tick
  \/ ensureDiskCacheDir

LifeSpec == LifeInit /\ [][LifeNext]_vars

(***************************************************************************)
(* FrameSpec: a CacheManager constructed over a diskCachePath that an      *)
(* earlier run may have left an entry file in; get(), invalidate(),        *)
(* invalidatePattern(), clear(), cleanup() and getStats() one at a time,   *)
(* within the budget MaxFrameCost.                                         *)
(***************************************************************************)
\* What the directory holds at the start: nothing (it does not exist), or the
\* file of an entry that an earlier run stored at time 0
Leftovers ==
  {<<>>,
   DiskPut(<<>>, generateKey("component:Button.tsx"),
           JSONStringify(NewEntry(Result("component:Button.tsx", 1), 0, Md5Hex("v0"))))}

FrameInit ==
  \E left \in Leftovers :
    InitOver([ttl |-> Ttl, maxMemoryEntries |-> MaxMemoryEntries], left)

FrameCost == now + GetsStarted + nAdmin

FrameAffordable(n) == FrameCost + n <= MaxFrameCost

FrameNext ==
  \/ \E p \in SeqProcs, key \in FaultKeys :
       Quiescent /\ FrameAffordable(1) /\ GetStart(p, key, "resolves")
  \/ \E p \in SeqProcs : GetDiskRead(p)
  \/ \E p \in SeqProcs : GetCompute(p)
  \/ \E p \in SeqProcs : GetHash(p)
  \/ \E p \in SeqProcs : GetDiskWrite(p)
  \/ \E p \in SeqProcs, key \in FaultKeys :
       Quiescent /\ FrameAffordable(1) /\ InvalidateStart(p, key)
  \/ \E p \in SeqProcs : InvalidateUnlink(p)
  \/ \E p \in SeqProcs, pattern \in Patterns :
       Quiescent /\ FrameAffordable(1) /\ InvalidatePatternStart(p, pattern)
  \/ \E p \in SeqProcs : InvalidatePatternUnlink(p)
  \/ \E p \in SeqProcs : Quiescent /\ FrameAffordable(1) /\ ClearStart(p)
  \/ \E p \in SeqProcs : ClearReaddir(p)
  \/ \E p \in SeqProcs : ClearUnlink(p)
  \/ \E p \in SeqProcs : Quiescent /\ FrameAffordable(1) /\ GetStatsStart(p)
  \/ \E p \in SeqProcs : GetStatsReaddir(p)
  \/ \E p \in SeqProcs : Quiescent /\ FrameAffordable(1) /\ CleanupStart(p)
  \/ \E p \in SeqProcs : CleanupReaddir(p)
  \/ \E p \in SeqProcs : CleanupReadFile(p)
  \/ \E p \in SeqProcs : CleanupUnlink(p)
  \/ FrameAffordable(1) /\ Tick
  \/ ensureDiskCacheDir

FrameSpec == FrameInit /\ [][FrameNext]_vars

(***************************************************************************)
(* SingletonSpec: getCache(options), resetCache() and get() on the         *)
(* instance that globalCache refers to, one at a time, within the budget   *)
(* MaxSingletonCost.                                                       *)
(***************************************************************************)
\* The options getCache is called with: those of index.ts (lines 2248-2252, as
\* Init has them), none, and others
SingletonOptions ==
  {[ttl |-> Ttl, maxMemoryEntries |-> MaxMemoryEntries],
   NoOptions,
   [ttl |-> 1, maxMemoryEntries |-> 1]}

SingletonAffordable(n) == LifeCost + n <= MaxSingletonCost

SingletonNext ==
  \/ \E p \in SeqProcs, key \in FaultKeys :
       /\ Quiescent /\ SingletonAffordable(1) /\ globalCache.ref # 0
       /\ GetStart(p, key, "resolves")
  \/ \E p \in SeqProcs : GetDiskRead(p)
  \/ \E p \in SeqProcs : GetCompute(p)
  \/ \E p \in SeqProcs : GetHash(p)
  \/ \E p \in SeqProcs : GetDiskWrite(p)
  \/ \E p \in SeqProcs, options \in SingletonOptions :
       Quiescent /\ SingletonAffordable(1) /\ getCache(p, options)
  \/ \E p \in SeqProcs : Quiescent /\ SingletonAffordable(1) /\ resetCache(p)
  \/ SingletonAffordable(1) /\ Tick
  \/ ensureDiskCacheDir

SingletonSpec == Init /\ [][SingletonNext]_vars

(***************************************************************************)
(* The claims.  A finished call is read from its slot: Returned(p, op).    *)
(***************************************************************************)
Returned(p, op) == calls[p].op = op /\ calls[p].pc = "done"

InMemory(cacheKey) == MapHas(memoryCache, cacheKey)

OnDisk(cacheKey) == cacheKey \in DOMAIN disk

\* C1: the memory tier never holds more than maxMemoryEntries entries, after any
\* sequence of get calls (misses that store, disk hits that promote).
C1_CapacityInvariant == Len(memoryCache) <= MaxMemoryEntries

\* C2: once get(K, c1, f) has cached an entry and the callback of the watcher
\* registered for it has finished for a "change" of f, the next get(K, c2, f)
\* invokes c2 and returns c2's result, not the cached value.
C2_FileChangeInvalidates ==
  \A p \in Procs :
    Returned(p, "get") /\ calls[p].changed =>
      /\ calls[p].invoked > 0
      /\ calls[p].src \in {"computed", "error"}

\* C3: invalidatePattern(p) removes every resident entry whose logical key matches
\* p (from both tiers, so that its next get recomputes) and no entry whose logical
\* key does not match.
C3_PatternInvalidation ==
  \A p \in Procs :
    Returned(p, "invalidatePattern") =>
      \A k \in LogicalKeys :
        generateKey(k) \in calls[p].keysBefore =>
          IF RegExpTest(calls[p].key, k)
          THEN ~InMemory(generateKey(k)) /\ ~OnDisk(generateKey(k))
          ELSE InMemory(generateKey(k))

\* C4: the number invalidatePattern(p) returns is the number of entries the call
\* removed from the memory tier (its size before minus its size after).
C4_PatternCount ==
  \A p \in Procs :
    Returned(p, "invalidatePattern") =>
      calls[p].count = Cardinality(calls[p].keysBefore) - Len(memoryCache)

\* C5: get never returns the data of an entry whose age is >= ttl, from either
\* tier; a get(K, c2) issued when ttl has elapsed since K's entry was created
\* invokes c2 and returns c2's result.
C5_TtlExpiry ==
  \A p \in Procs :
    Returned(p, "get") =>
      /\ calls[p].src \in {"memory", "disk"} =>
           calls[p].servedAge >= 0 /\ calls[p].servedAge < Ttl
      /\ calls[p].expired =>
           /\ calls[p].invoked > 0
           /\ calls[p].fn = "resolves" =>
                calls[p].src = "computed" /\ calls[p].data = Result(calls[p].key, calls[p].invoked)

\* C5's case: an entry of K was past its ttl when get(K, c2) started, and the get
\* returned c2's result
C5_Witness ==
  \E p \in Procs :
    Returned(p, "get") /\ calls[p].expired /\ calls[p].src = "computed"

\* C6 as claimed: a get(K) before ttl has elapsed since K's entry was created,
\* with no invalidate, clear or recompute of K in between, does not invoke
\* computeFn, whatever gets on other keys came in between and for either setting
\* of enableDiskCache.
C6_RetentionAsClaimed ==
  \A p \in Procs : calls[p].op = "get" /\ calls[p].invoked > 0 => ~calls[p].fresh

\* C6, amended: such a get(K) does not invoke computeFn as long as K's entry is
\* still in the memory tier or was written to the disk tier; it invokes computeFn
\* only when the entry was evicted from the memory tier and the disk tier holds
\* no copy (enableDiskCache = false, or the write did not succeed).
C6_Retention ==
  \A p \in Procs :
    calls[p].op = "get" /\ calls[p].invoked > 0 /\ calls[p].fresh =>
      calls[p].evicted /\ ~calls[p].persisted

\* C6's case: K was evicted from the memory tier by gets on other keys, and a
\* get(K) within ttl is served from the disk tier without computeFn
C6_Witness ==
  \E p \in Procs :
    /\ Returned(p, "get") /\ calls[p].src = "disk" /\ calls[p].invoked = 0
    /\ track[calls[p].key].evicted /\ track[calls[p].key].persisted
    /\ ~track[calls[p].key].destroyed
    /\ calls[p].doneAt - track[calls[p].key].born < Ttl

\* C7: on an empty cache get(K, c1) invokes c1 once and returns its result; an
\* immediately following get(K, c2) returns c1's result and does not invoke c2.
C7_ColdThenWarm ==
  \A p \in Procs :
    Returned(p, "get") =>
      /\ calls[p].cold /\ calls[p].fn = "resolves" =>
           /\ calls[p].invoked > 0
           /\ calls[p].src = "computed"
           /\ calls[p].data = Result(calls[p].key, calls[p].invoked)
      /\ /\ calls[p].prev.same /\ calls[p].prev.cold
         /\ calls[p].prev.src = "computed" /\ calls[p].prev.immediate
         => /\ calls[p].src = "memory"
            /\ calls[p].data = calls[p].prev.data
            /\ calls[p].invoked = 0

\* C7's case: the second get of the pair has returned
C7_Witness ==
  \E p \in Procs :
    /\ Returned(p, "get") /\ calls[p].src = "memory"
    /\ calls[p].prev.same /\ calls[p].prev.cold
    /\ calls[p].prev.src = "computed" /\ calls[p].prev.immediate

\* A step in which a get stores its entry (set())
StoreStep ==
  \E p \in Procs :
    /\ calls[p].op = "get" /\ calls[p].pc \in {"compute", "hash"}
    /\ \/ calls'[p].pc = "diskWrite"
       \/ calls'[p].pc = "done" /\ calls'[p].src = "computed"

C9_Promotion ==
  \A p \in Procs :
    Returned(p, "get") =>
      /\ calls[p].src = "disk" =>
           /\ InMemory(calls[p].cacheKey)
           /\ MapGet(memoryCache, calls[p].cacheKey).data = calls[p].data
      /\ calls[p].prev.same /\ calls[p].prev.src = "disk" /\ ~calls[p].expired =>
           /\ calls[p].src = "memory"
           /\ calls[p].data = calls[p].prev.data
           /\ calls[p].invoked = 0

\* C9's case: the get after a disk hit has returned from the memory tier
C9_Witness ==
  \E p \in Procs :
    /\ Returned(p, "get") /\ calls[p].src = "memory"
    /\ calls[p].prev.same /\ calls[p].prev.src = "disk"

\* The entries the tiers hold for a cache key
Copies(cacheKey) ==
  (IF InMemory(cacheKey) THEN {MapGet(memoryCache, cacheKey)} ELSE {})
    \cup (IF OnDisk(cacheKey) /\ JSONParses(disk[cacheKey])
          THEN {JSONParse(disk[cacheKey])} ELSE {})

\* C10 as claimed: after a get(K) whose computeFn threw, neither tier holds an
\* entry for K.
C10_IsolationAsClaimed ==
  \A p \in Procs :
    Returned(p, "get") /\ calls[p].src = "error" =>
      ~InMemory(calls[p].cacheKey) /\ ~OnDisk(calls[p].cacheKey)

\* C10, amended: if computeFn throws during get(K), the get fails with that error
\* and stores nothing: afterwards neither tier holds an entry for K that is
\* within its ttl or that carries a value of the failed call (an entry of K that
\* had expired before the call is still there); the next get(K) with a
\* succeeding computeFn computes, stores and returns its value.
C10_Isolation ==
  \A p \in Procs :
    Returned(p, "get") =>
      /\ calls[p].fn = "rejects" /\ calls[p].invoked > 0 => calls[p].src = "error"
      /\ calls[p].src = "error" =>
           /\ calls[p].fn = "rejects" /\ calls[p].data = NoData
           /\ \A e \in Copies(calls[p].cacheKey) :
                /\ ~isValid(e)
                /\ e.data # NoData
                /\ e.data # Result(calls[p].key, calls[p].invoked)
      /\ calls[p].prev.same /\ calls[p].prev.src = "error" /\ calls[p].fn = "resolves" =>
           /\ calls[p].src = "computed"
           /\ calls[p].data = Result(calls[p].key, calls[p].invoked)
           /\ InMemory(calls[p].cacheKey)
           /\ MapGet(memoryCache, calls[p].cacheKey).data = calls[p].data

\* C10's case: a get(K) failed, and the next get(K) has computed and stored
C10_Witness ==
  \E p \in Procs :
    /\ Returned(p, "get") /\ calls[p].src = "computed"
    /\ calls[p].prev.same /\ calls[p].prev.src = "error"

\* C11: every get increments exactly one of stats.hits and stats.misses, once:
\* the two counters add up to the gets that have completed plus the gets in
\* flight that are past the lookup, and what getStats reports as
\* totalHits + totalMisses is the number of completed gets.
C11_StatsAccounting ==
  /\ stats.hits + stats.misses =
       completed + Cardinality({p \in Procs : /\ calls[p].op = "get"
                                              /\ calls[p].pc \in {"compute", "hash", "diskWrite"}})
  /\ \A p \in Procs :
       Returned(p, "getStats") =>
         calls[p].report.totalHits + calls[p].report.totalMisses = completed

\* C11's case: getStats after a miss, a hit and a get whose computeFn failed
C11_Witness ==
  \E p \in Procs :
    /\ Returned(p, "getStats") /\ completed = 3
    /\ calls[p].report.totalHits = 1 /\ calls[p].report.totalMisses = 2
    /\ \A k \in LogicalKeys : track[k].born >= 0 => track[k].born = 0 /\ k = "component:Card.tsx"

\* C12 as claimed: hitRate is totalHits / N for N = totalHits + totalMisses, and
\* 0 when N = 0 (report.hitRate holds hundredths).
C12_HitRateAsClaimed ==
  \A p \in Procs :
    Returned(p, "getStats") =>
      LET r == calls[p].report
          N == r.totalHits + r.totalMisses
      IN IF N = 0 THEN r.hitRate = 0 ELSE r.hitRate * N = 100 * r.totalHits

\* C12, amended: hitRate is the percentage 100 * totalHits / N rounded to two
\* decimals (the multiple of 0.01 nearest to it), and 0 when N = 0.
C12_HitRate ==
  \A p \in Procs :
    Returned(p, "getStats") =>
      LET r == calls[p].report
          N == r.totalHits + r.totalMisses
          d == r.hitRate * N - 10000 * r.totalHits
      IN IF N = 0 THEN r.hitRate = 0
         ELSE /\ r.hitRate \in 0..10000
              /\ 2 * d <= N /\ -2 * d <= N

\* C12's case: a hit rate that has to be rounded (2 hits of 3 gets: 66.67)
C12_Witness ==
  \E p \in Procs :
    /\ Returned(p, "getStats")
    /\ calls[p].report.totalHits = 2 /\ calls[p].report.totalMisses = 1
    /\ calls[p].report.hitRate = 6667

\* C13: once invalidate(K) for a logical key K has completed, with no other call
\* in flight, neither the memory tier nor the disk tier holds an entry for K, and
\* the next get(K, c) invokes c.
C13_InvalidateRemoves ==
  \A p \in Procs :
    /\ Returned(p, "invalidate") /\ Quiescent =>
         ~InMemory(generateKey(calls[p].key)) /\ ~OnDisk(generateKey(calls[p].key))
    /\ /\ Returned(p, "get")
       /\ calls[p].prev.op = "invalidate" /\ calls[p].prev.key = calls[p].key
       => calls[p].invoked > 0 /\ calls[p].src \in {"computed", "error"}

\* C13's case: K was computed and stored, invalidated, and asked for again: the
\* second computation of the instance is this get's
C13_Witness ==
  \E p \in Procs :
    /\ Returned(p, "get") /\ calls[p].src = "computed" /\ calls[p].invoked = 2
    /\ calls[p].prev.op = "invalidate" /\ calls[p].prev.key = calls[p].key
    /\ now = 0
    /\ \A k \in LogicalKeys \ {calls[p].key} : track[k].born = -1

\* C14: an invalidate(K) that follows an invalidate(K), or whose K was never
\* cached, changes nothing in any of its steps (the tiers, the counters, the
\* watches stay as they are) and does not fail.
C14_InvalidateIdempotent ==
  [][\A p \in Procs :
       /\ calls'[p] # calls[p] /\ calls'[p].op = "invalidate"
       /\ calls'[p].repeat \/ track[calls'[p].key].born = -1
       => /\ memoryCache' = memoryCache /\ disk' = disk /\ stats' = stats
          /\ fileWatchers' = fileWatchers /\ handles' = handles
          /\ calls'[p].src # "error"]_vars

\* C14's case: the second of two invalidate(K) for a K that had been cached has
\* completed
C14_Witness ==
  \E p \in Procs :
    /\ Returned(p, "invalidate") /\ calls[p].repeat
    /\ track[calls[p].key].born >= 0

\* C15: a failure of the disk tier during get (an entry file that is missing or
\* malformed, a write that fails, a source file that cannot be read for its hash)
\* never makes get fail: a get that did not invoke computeFn returns a value that
\* was computed for its key, a get whose computeFn resolved returns that value,
\* and get fails only when its computeFn failed.
C15_StorageDegradation ==
  \A p \in Procs :
    Returned(p, "get") =>
      /\ calls[p].invoked = 0 =>
           /\ calls[p].src \in {"memory", "disk"}
           /\ \E n \in 1..stats.misses : calls[p].data = Result(calls[p].key, n)
      /\ calls[p].invoked > 0 /\ calls[p].fn = "resolves" =>
           calls[p].src = "computed" /\ calls[p].data = Result(calls[p].key, calls[p].invoked)
      /\ calls[p].src = "error" => calls[p].invoked > 0 /\ calls[p].fn = "rejects"

\* C15's case: the entry file of K was malformed and the source file of K could
\* not be read when get(K) ran, and the get returned the value it computed
C15_Witness ==
  \E p \in Procs :
    /\ Returned(p, "get") /\ calls[p].garbled /\ calls[p].src = "computed"
    /\ calls[p].file \in missing
    /\ MapGet(memoryCache, calls[p].cacheKey).hash = ""

\* C16: once clear() has completed, with no other call in flight, the memory
\* tier is empty and the disk tier holds no entry file, and the next get, for
\* any key, invokes its computeFn.
C16_ClearEmpties ==
  \A p \in Procs :
    /\ Returned(p, "clear") /\ Quiescent => memoryCache = <<>> /\ DOMAIN disk = {}
    /\ Returned(p, "get") /\ calls[p].prev.op = "clear" =>
         calls[p].invoked > 0 /\ calls[p].src \in {"computed", "error"}

\* C16's case: with the disk cache on, K was computed and written to the disk
\* tier, clear() ran, and the next get(K) computed again
C16_Witness ==
  \E p \in Procs :
    /\ Returned(p, "get") /\ calls[p].prev.op = "clear"
    /\ calls[p].src = "computed" /\ calls[p].invoked = 2
    /\ enableDiskCache /\ dirExists /\ now = 0
    /\ \A k \in LogicalKeys \ {calls[p].key} : track[k].born = -1

\* C17: no step of clear() changes stats.hits or stats.misses; clear() sets
\* lastClear to the time at which it completes; no step of any other operation
\* changes lastClear.
C17_ClearStats ==
  [][/\ \A p \in Procs :
          calls'[p].op = "clear" /\ calls'[p] # calls[p] =>
            /\ stats'.hits = stats.hits /\ stats'.misses = stats.misses
            /\ calls'[p].pc = "done" => stats'.lastClear = now
     /\ stats'.lastClear # stats.lastClear =>
          \E p \in Procs :
            calls'[p].op = "clear" /\ calls'[p].pc = "done" /\ calls'[p] # calls[p]]_vars

\* C17's case: a clear() has completed after gets were counted and time has passed
C17_Witness ==
  \E p \in Procs :
    /\ Returned(p, "clear") /\ calls[p].doneAt > 0
    /\ stats.lastClear = calls[p].doneAt
    /\ stats.hits > 0 /\ stats.misses > 0

\* C18: once cleanup() has completed, with no other call in flight, no expired
\* entry remains in the memory tier or in the disk tier, whatever the disk cache
\* directory holds (a malformed entry file included).
C18_CleanupRemovesExpired ==
  \A p \in Procs :
    Returned(p, "cleanup") /\ Quiescent /\ calls[p].doneAt = now =>
      /\ \A i \in 1..Len(memoryCache) : isValid(memoryCache[i].entry)
      /\ \A k \in DOMAIN disk : JSONParses(disk[k]) => isValid(JSONParse(disk[k]))

\* C19: no step of cleanup() removes or modifies an entry that is unexpired at
\* that time, in the memory tier or in the disk tier, whatever its hits; nor does
\* it change the counters or the watches.
C19_CleanupFrame ==
  [][\A p \in Procs :
       calls'[p].op = "cleanup" /\ calls'[p] # calls[p] =>
         /\ \A i \in 1..Len(memoryCache) :
              isValid(memoryCache[i].entry) =>
                /\ MapHas(memoryCache', memoryCache[i].key)
                /\ MapGet(memoryCache', memoryCache[i].key) = memoryCache[i].entry
         /\ \A k \in DOMAIN disk :
              JSONParses(disk[k]) /\ isValid(JSONParse(disk[k])) =>
                k \in DOMAIN disk' /\ disk'[k] = disk[k]
         /\ stats' = stats /\ fileWatchers' = fileWatchers /\ handles' = handles]_vars

\* C19's case: cleanup() has removed an expired entry from both tiers while an
\* unexpired entry that was never hit is still in both
C19_Witness ==
  \E p \in Procs :
    /\ Returned(p, "cleanup") /\ calls[p].doneAt = now /\ calls[p].removed # {}
    /\ \E i \in 1..Len(memoryCache) :
         /\ memoryCache[i].entry.hits = 0
         /\ isValid(memoryCache[i].entry)
         /\ memoryCache[i].key \in DOMAIN disk
         /\ JSONParses(disk[memoryCache[i].key])
    /\ \A k \in calls[p].removed : ~InMemory(k) /\ ~OnDisk(k)

\* C20: the number cleanup() returns is the number of expired entries (distinct
\* keys) that the call removed: a key removed from both tiers counts once.
C20_CleanupCount ==
  \A p \in Procs :
    Returned(p, "cleanup") => calls[p].count = Cardinality(calls[p].removed)

\* The watch handles that are open on a file
OpenHandles(f) == {h \in 1..Len(handles) : handles[h].open /\ handles[h].file = f}

\* C21: in every state at most one watch handle is open per source file, and it
\* is the one the registry holds for the file, whatever the interleaving of the
\* gets that name the file.
C21_OneWatchPerFile ==
  \A f \in SourceFiles :
    /\ Cardinality(OpenHandles(f)) <= 1
    /\ \A h \in OpenHandles(f) : f \in DOMAIN fileWatchers /\ fileWatchers[f] = h

\* C21's case: two gets that name the same file have overlapped, both have
\* computed and stored, and one watch is open on the file
C21_Witness ==
  /\ Returned(1, "get") /\ Returned(2, "get")
  /\ calls[1].src = "computed" /\ calls[2].src = "computed"
  /\ calls[1].file = calls[2].file /\ calls[1].file # NoPath
  /\ calls[1].key # calls[2].key
  /\ calls[1].overlap \/ calls[2].overlap
  /\ Cardinality(OpenHandles(calls[1].file)) = 1

\* get() calls in flight
GetsInFlight == {p \in Procs : calls[p].op = "get" /\ ~Free(p)}

C23_SharedFileInvalidates ==
  \A p \in Procs :
    Returned(p, "get") /\ calls[p].notified =>
      /\ calls[p].invoked > 0
      /\ calls[p].src \in {"computed", "error"}

\* C24: with the disk cache on, the first get(K) of a new CacheManager over the
\* same diskCachePath, for a K that the process before stored and whose entry is
\* within the ttl, is served from the disk tier and does not invoke computeFn.
C24_DiskSurvivesRestart ==
  \A p \in Procs :
    /\ Returned(p, "get") /\ calls[p].prev.op = "constructor"
    /\ enableDiskCache /\ calls[p].live
    => calls[p].src = "disk" /\ calls[p].invoked = 0

\* C25: no CacheManager whose ttl or maxMemoryEntries is not positive is in use:
\* construction with such options fails, so no get() is ever called on one.
C25_OptionsValidated ==
  \A p \in Procs : calls[p].op = "get" => ttl > 0 /\ maxMemoryEntries > 0

\* C26: a get(K) that returns a value returns one that a computeFn passed to a
\* get(K) produced; in both tiers the entry under the cache key of K holds a value
\* computed for K, distinct logical keys have distinct cache keys, and when both
\* tiers hold a copy of K with the same creation time it is the same entry.
C26_KeyIsolation ==
  /\ \A p \in Procs :
       Returned(p, "get") /\ calls[p].src \in {"memory", "disk", "computed"} =>
         calls[p].data # NoData /\ calls[p].data[1] = calls[p].key
  /\ \A k1, k2 \in LogicalKeys : k1 # k2 => generateKey(k1) # generateKey(k2)
  /\ \A k \in LogicalKeys :
       LET ck == generateKey(k)
       IN /\ InMemory(ck) => MapGet(memoryCache, ck).data[1] = k
          /\ OnDisk(ck) /\ JSONParses(disk[ck]) => JSONParse(disk[ck]).data[1] = k
          /\ InMemory(ck) /\ OnDisk(ck) /\ JSONParses(disk[ck])
             /\ MapGet(memoryCache, ck).timestamp = JSONParse(disk[ck]).timestamp
             => /\ MapGet(memoryCache, ck).data = JSONParse(disk[ck]).data
                /\ MapGet(memoryCache, ck).hash = JSONParse(disk[ck]).hash

\* C26's case: a get is served from a tier while entries of two other keys are
\* resident in both tiers
C26_Witness ==
  \E p \in Procs :
    /\ Returned(p, "get") /\ calls[p].src \in {"memory", "disk"}
    /\ \E k1, k2 \in LogicalKeys \ {calls[p].key} :
         /\ k1 # k2
         /\ OnDisk(generateKey(k1)) /\ OnDisk(generateKey(k2))
         /\ InMemory(generateKey(k1)) \/ InMemory(generateKey(k2))

\* A step in which the get() of p returns or throws
Returns(p) == calls[p].op = "get" /\ ~Free(p) /\ calls'[p].pc = "done"

\* C27: a full-miss get during which fs.watch failed still returns the value it
\* computed, and its entry is stored as by any other get: the memory tier holds
\* it and it is written to the disk tier (the file is there when the write found
\* the cache directory); the file has no watcher.
C27_WatchFailureTolerated ==
  [][\A p \in Procs :
       Returns(p) /\ calls'[p].watchFailed =>
         LET c == calls'[p]
         IN /\ c.src = "computed"
            /\ c.data = Result(c.key, c.invoked)
            /\ MapHas(memoryCache', c.cacheKey)
            /\ MapGet(memoryCache', c.cacheKey).data = c.data
            /\ enableDiskCache /\ dirExists =>
                 /\ c.cacheKey \in DOMAIN disk'
                 /\ disk'[c.cacheKey] = JSONStringify(MapGet(memoryCache', c.cacheKey))
            /\ c.file \notin DOMAIN fileWatchers']_vars

\* C27's case: a get whose watch could not be set up has returned, and its entry
\* is in both tiers
C27_Witness ==
  \E p \in Procs :
    /\ Returned(p, "get") /\ calls[p].watchFailed
    /\ InMemory(calls[p].cacheKey) /\ OnDisk(calls[p].cacheKey)
    /\ JSONParses(disk[calls[p].cacheKey])
    /\ JSONParse(disk[calls[p].cacheKey]).data = calls[p].data

\* C28: from its creation to its destruction (invalidation, clear, recompute of
\* the key), the hits of the entry held for a key never go down: the memory copy
\* of the entry created last shows the highest hits that entry has ever shown.
C28_HitCountMonotone ==
  \A k \in LogicalKeys :
    LET ck == generateKey(k)
    IN /\ InMemory(ck) /\ ~track[k].destroyed
       /\ MapGet(memoryCache, ck).timestamp = track[k].born
       => MapGet(memoryCache, ck).hits >= track[k].hits

\* A step in which the get() of p is served from a tier
Served(p) ==
  /\ calls'[p] # calls[p]
  /\ calls'[p].op = "get" /\ calls'[p].pc = "done"
  /\ calls'[p].src \in {"memory", "disk"}

\* C29: a hit leaves the creation time and the data of the entry as they are, in
\* both tiers, and a promotion puts in the memory tier a copy with the data and
\* the creation time of the disk copy; no entry is ever stamped later than the
\* time the value of its key was last computed, so that it expires ttl after its
\* creation however often it is hit or promoted, and what a get serves is younger
\* than ttl.
C29_CreatedAtFixed ==
  [][/\ \A p \in Procs :
          Served(p) =>
            LET ck == calls'[p].cacheKey
                before == IF calls'[p].src = "memory" THEN MapGet(memoryCache, ck)
                          ELSE JSONParse(disk[ck])
                after == MapGet(memoryCache', ck)
            IN /\ MapHas(memoryCache', ck)
               /\ after.timestamp = before.timestamp
               /\ after.data = before.data
               /\ after.hash = before.hash
               /\ disk' = disk
               /\ calls'[p].data = before.data
               /\ now - before.timestamp < ttl
               /\ \A k \in MapKeys(memoryCache) \ {ck} :
                    MapHas(memoryCache', k) /\ MapGet(memoryCache', k) = MapGet(memoryCache, k)
     /\ \A k \in LogicalKeys :
          MapHas(memoryCache', generateKey(k)) =>
            MapGet(memoryCache', generateKey(k)).timestamp <= track'[k].born]_vars

\* C29's case: a get has been served from the disk tier some time after the
\* entry was created, and the copy it promoted carries the creation time and the
\* data of the disk copy
C29_Witness ==
  \E p \in Procs :
    /\ Returned(p, "get") /\ calls[p].src = "disk" /\ calls[p].servedAge >= 1
    /\ InMemory(calls[p].cacheKey) /\ OnDisk(calls[p].cacheKey)
    /\ MapGet(memoryCache, calls[p].cacheKey).timestamp
         = JSONParse(disk[calls[p].cacheKey]).timestamp
    /\ MapGet(memoryCache, calls[p].cacheKey).data = calls[p].data

\* Two get() calls for one key, with computeFns that resolve, that both started
\* while neither tier held an entry for the key, and that have both returned
ConcurrentMisses(p, q) ==
  /\ p # q
  /\ Returned(p, "get") /\ Returned(q, "get")
  /\ calls[p].key = calls[q].key
  /\ calls[p].absent /\ calls[q].absent
  /\ calls[p].fn = "resolves" /\ calls[q].fn = "resolves"

\* The entries the memory tier holds under a cache key
EntriesFor(cacheKey) == {i \in 1..Len(memoryCache) : memoryCache[i].key = cacheKey}

\* A get() that invoked its computeFn and returned what it resolved with
Computed(p) ==
  /\ calls[p].src = "computed" /\ calls[p].invoked > 0
  /\ calls[p].invoked <= stats.misses
  /\ calls[p].data = Result(calls[p].key, calls[p].invoked)

\* C30 as claimed: two get(K) that both start while no entry for K exists each
\* invoke their own computeFn and return their own value, two misses are
\* recorded, and when both have finished the memory tier holds one entry for K.
C30_ConcurrentMissesAsClaimed ==
  \A p, q \in Procs :
    ConcurrentMisses(p, q) =>
      /\ Computed(p) /\ Computed(q)
      /\ calls[p].invoked # calls[q].invoked
      /\ stats.misses >= 2
      /\ Cardinality(EntriesFor(calls[p].cacheKey)) = 1

\* C30: of two get(K) that both start while no entry for K exists, each invokes
\* its own computeFn and returns its own value, one miss recorded for each,
\* except that with the disk cache on the one whose disk lookup resolves after
\* the other has written its entry is served that entry from the disk tier
\* without invoking its computeFn; at least one of the two computes, and when
\* both have finished the memory tier holds one entry for K, with the value of
\* one of them.
C30_ConcurrentMisses ==
  \A p, q \in Procs :
    ConcurrentMisses(p, q) =>
      /\ Computed(p) \/ Computed(q)
      /\ Computed(p) /\ Computed(q) => calls[p].invoked # calls[q].invoked
      /\ ~Computed(p) =>
           /\ enableDiskCache
           /\ calls[p].src = "disk" /\ calls[p].invoked = 0
           /\ calls[p].data = calls[q].data
      /\ Cardinality(EntriesFor(calls[p].cacheKey)) = 1
      /\ MapGet(memoryCache, calls[p].cacheKey).data \in {calls[p].data, calls[q].data}

\* C30's case: both calls have computed and returned, each its own value
C30_Witness ==
  \E p, q \in Procs :
    /\ ConcurrentMisses(p, q)
    /\ Computed(p) /\ Computed(q)
    /\ calls[p].data # calls[q].data
    /\ enableDiskCache

\* The memory tier holds for the key of the call of slot p the value that call
\* computed, or the value another get() computed for the key
Resident(p) ==
  /\ InMemory(calls[p].cacheKey)
  /\ MapGet(memoryCache, calls[p].cacheKey).data[1] = calls[p].key

\* C31: a get(K) during whose computation a clear() ran completes without error
\* and returns what it computed; its entry is in the memory tier from then on,
\* until K is invalidated or cleared again, and the next get(K) within the ttl
\* is served from the memory tier without invoking computeFn.
C31_ClearRacingGet ==
  \A p \in Procs :
    /\ /\ Returned(p, "get") /\ <<"clear", "">> \in calls[p].during
       /\ calls[p].fn = "resolves"
       => /\ calls[p].src = "computed"
          /\ calls[p].data = Result(calls[p].key, calls[p].invoked)
          /\ ~track[calls[p].key].destroyed => Resident(p)
    /\ /\ Returned(p, "get") /\ calls[p].prev.same /\ calls[p].live
       /\ <<"clear", "">> \in calls[p].prev.during /\ calls[p].prev.src = "computed"
       => /\ calls[p].src = "memory"
          /\ calls[p].invoked = 0
          /\ calls[p].data[1] = calls[p].key

\* C31's case: the get(K) after one that overlapped a clear() has been served
\* from the memory tier
C31_Witness ==
  \E p \in Procs :
    /\ Returned(p, "get") /\ calls[p].prev.same /\ calls[p].src = "memory"
    /\ <<"clear", "">> \in calls[p].prev.during
    /\ calls[p].data = calls[p].prev.data
    /\ \E q \in Procs : Returned(q, "clear")

\* A step in which the get() of p puts its entry in the memory tier (set())
Stores(p) ==
  /\ calls[p].op = "get" /\ calls[p].pc \in {"compute", "hash"}
  /\ \/ calls'[p].pc = "diskWrite"
     \/ calls'[p].pc = "done" /\ calls'[p].src = "computed"

\* C32: a get(K) during whose computation an invalidate(K) completed still
\* stores what it computed, so that K is in the memory tier after the store, and
\* returns that value without error; K is still there when the get has returned,
\* unless it was invalidated or cleared again; the invalidate has completed as
\* well.
C32_InvalidateRacingGet ==
  [][\A p \in Procs :
       <<"invalidate", calls'[p].key>> \in calls'[p].during =>
         /\ Stores(p) =>
              /\ MapHas(memoryCache', calls'[p].cacheKey)
              /\ MapGet(memoryCache', calls'[p].cacheKey).data = calls'[p].data
              /\ calls'[p].data = Result(calls'[p].key, calls'[p].invoked)
         /\ Returns(p) /\ calls'[p].fn = "resolves" =>
              /\ calls'[p].src = "computed"
              /\ calls'[p].data = Result(calls'[p].key, calls'[p].invoked)
              /\ ~track'[calls'[p].key].destroyed => Resident(p)']_vars

\* C32's case: both calls have returned, and the memory tier holds what the get
\* computed
C32_Witness ==
  \E p, q \in Procs :
    /\ Returned(p, "get") /\ <<"invalidate", calls[p].key>> \in calls[p].during
    /\ Returned(q, "invalidate") /\ calls[q].key = calls[p].key
    /\ enableDiskCache
    /\ InMemory(calls[p].cacheKey)
    /\ MapGet(memoryCache, calls[p].cacheKey).data = calls[p].data

\* C33: with the disk cache on, when a get that computed and stored returns, the
\* cache directory exists and holds the file of its entry, whether or not the
\* directory existed when the get was issued.
C33_StoreCreatesDirectory ==
  [][\A p \in Procs :
       Returns(p) /\ calls'[p].src = "computed" /\ enableDiskCache =>
         /\ dirExists'
         /\ calls'[p].cacheKey \in DOMAIN disk'
         /\ disk'[calls'[p].cacheKey] = calls'[p].write]_vars

\* Where a call waits for an operation on the disk tier to settle
DiskSteps == {"diskRead", "diskWrite", "readdir", "readFile", "unlink"}

\* C34: with enableDiskCache = false no step of get, invalidate,
\* invalidatePattern, clear, cleanup or getStats changes the disk tier or leaves
\* a call waiting for an operation on it, and getStats reports diskEntries = 0;
\* with enableFileWatching = false no watcher is ever registered.
C34_DisabledTiersUntouched ==
  [][/\ ~enableDiskCache =>
          /\ disk' = disk /\ dirExists' = dirExists /\ ~mkdirPending'
          /\ \A p \in Procs :
               /\ calls'[p].pc \notin DiskSteps
               /\ calls'[p].op = "getStats" /\ calls'[p].pc = "done" =>
                    calls'[p].report.diskEntries = 0
     /\ ~enableFileWatching => handles' = <<>> /\ fileWatchers' = <<>>]_vars

\* C34's case: with the disk cache off, over a directory that holds a file of an
\* earlier run, a get has computed and a getStats() that followed another
\* administrative call has reported; the file is still there
C34_Witness ==
  \E p \in Procs :
    /\ ~enableDiskCache /\ ~enableFileWatching
    /\ Returned(p, "getStats") /\ calls[p].report.diskEntries = 0
    /\ disk # <<>>
    /\ stats.misses >= 1
    /\ nAdmin >= 2

\* C35: with file watching on, every entry in the memory tier that a get naming
\* a source file created has an open watcher on that file, whatever the
\* interleaving of get with clear() and close().
C35_ResidentEntriesWatched ==
  enableFileWatching =>
    \A k \in LogicalKeys :
      InMemory(generateKey(k)) /\ track[k].file # NoPath =>
        OpenHandles(track[k].file) # {}

\* C36: in every state with no call in flight, when the memory tier and the disk
\* tier both hold an entry for a key, the two copies have the same data and the
\* same creation time.
C36_TierConsistency ==
  Quiescent =>
    \A k \in LogicalKeys :
      LET ck == generateKey(k)
      IN InMemory(ck) /\ OnDisk(ck) /\ JSONParses(disk[ck]) =>
           /\ MapGet(memoryCache, ck).data = JSONParse(disk[ck]).data
           /\ MapGet(memoryCache, ck).timestamp = JSONParse(disk[ck]).timestamp

\* C37: a store for a key that is already in the memory tier evicts no other
\* key: every key that was there before the store is there after it.
C37_RestoreEvictsNothing ==
  [][\A p \in Procs :
       Stores(p) /\ MapHas(memoryCache, calls[p].cacheKey) =>
         MapKeys(memoryCache) \subseteq MapKeys(memoryCache')]_vars

\* C38: a get(K, c, f) with a source file f is never served, from either tier, an
\* entry whose stored hash differs from the hash of what f holds now.
C38_HashCheckedOnHit ==
  [][\A p \in Procs :
       Served(p) /\ calls'[p].file # NoPath =>
         LET ck == calls'[p].cacheKey
             served == IF calls'[p].src = "memory" THEN MapGet(memoryCache, ck)
                       ELSE JSONParse(disk[ck])
         IN served.hash = computeFileHash(calls'[p].file)]_vars

\* A step in which a getCache(options) of slot p returns
GetCacheStep(p) ==
  /\ calls'[p].op = "getCache"
  /\ nAdmin' # nAdmin

\* C39: while globalCache is set, getCache(options) returns the instance it
\* refers to and changes nothing of it, whatever the options (those of the
\* call that constructed it stay in force); when globalCache is null (at the
\* start, after resetCache()) getCache constructs an instance that was not there
\* before, with the options of this call, an empty memory tier and counters at 0,
\* and returns it.
C39_Singleton ==
  [][\A p \in Procs :
       GetCacheStep(p) =>
         /\ calls'[p].instance = globalCache'.ref /\ globalCache'.ref # 0
         /\ IF globalCache.ref # 0
            THEN /\ globalCache' = globalCache
                 /\ ttl' = ttl /\ maxMemoryEntries' = maxMemoryEntries
                 /\ memoryCache' = memoryCache /\ stats' = stats
                 /\ fileWatchers' = fileWatchers /\ disk' = disk
            ELSE /\ globalCache'.ref > globalCache.made
                 /\ ttl' = OptionOr(calls'[p].options.ttl, DefaultTtl)
                 /\ maxMemoryEntries' =
                      OptionOr(calls'[p].options.maxMemoryEntries, DefaultMaxMemoryEntries)
                 /\ memoryCache' = <<>>
                 /\ stats'.hits = 0 /\ stats'.misses = 0]_vars

\* C39's case: after a get on the first instance and a resetCache(), a second
\* instance was constructed, and a getCache with other options has returned that
\* same instance, configured as it was
C39_Witness ==
  \E p \in Procs :
    /\ Returned(p, "getCache") /\ calls[p].instance = 2 /\ globalCache.ref = 2
    /\ OptionOr(calls[p].options.ttl, DefaultTtl) # ttl
    /\ completed >= 1
    /\ memoryCache = <<>>
====
